---- MODULE Spec2Model ----
(***************************************************************************)
(* WMSClient (src/server/utils.py): the capabilities cache, the fetch      *)
(* path of get_capabilities and the two lookups built on it.               *)
(*                                                                         *)
(* A call of get_capabilities is modelled statement by statement: the      *)
(* coroutine holds no lock, and its reads of self._capabilities_cache and  *)
(* self._cache_timestamp (lines 36-39) and its two writes (lines 54, 55)   *)
(* are separate accesses of the shared object.                             *)
(*                                                                         *)
(* Spec is one thread of control (the event loop of main.py: the coroutine *)
(* has no await, so a call runs to its end before the next starts) making  *)
(* calls on two WMSClient instances while the clock runs. SpecThreads is   *)
(* two threads of control calling get_capabilities on one shared instance, *)
(* their statements interleaving freely.                                   *)
(*                                                                         *)
(* Python values: None is <<>> and a present value v is <<v>>; a str is a  *)
(* sequence of one-character strings; datetime values are minutes.         *)
(***************************************************************************)
EXTENDS Integers, Sequences, FiniteSets, TLC

None == <<>>
Some(v) == <<v>>

\* ---------------------------------------------------------------- bounds
\* the clock stops at MaxNow minutes
MaxNow == 61
\* at most MaxRequests HTTP requests are issued in a behaviour
MaxRequests == 2

\* the clock advances by one of these steps (minutes)
TickSteps == {30, 31}

\* threads of control calling into the clients, and the WMSClient instances
Callers == {"t1", "t2"}
Clients == {"c1", "c2"}

\* the thread that runs the event loop, and the instance threads share
LoopCaller == "t1"
SharedClient == "c1"

\* the clock step of SpecThreads: past the cache duration at once
LongSteps == {61}

\* ------------------------------------------------------- program constants
\* self._cache_duration = timedelta(hours=1), in minutes
CacheDuration == 60

\* default base_url of WMSClient.__init__, and a second endpoint
DefaultBaseUrl == "https://map.bgs.ac.uk/arcgis/services/UKSO/UKSO_BGS/MapServer/WMSServer"
OtherBaseUrl == "https://example.org/wms"

BaseUrlOf(c) == IF c = "c1" THEN DefaultBaseUrl ELSE OtherBaseUrl

\* default of the version parameter of get_capabilities
DefaultVersion == "1.3.0"
Versions == {"1.3.0", "1.1.1"}

\* ------------------------------------------------------------- strings
Soil == <<"S", "o", "i", "l">>
Geo == <<"g", "e", "o">>
SoilDepth == <<"S", "o", "i", "l", " ", "D", "e", "p", "t", "h">>
Ukso == <<"U", "K", "S", "O">>

\* str.lower() on the characters the documents use
LowerChar(ch) ==
    CASE ch = "S" -> "s"
      [] ch = "D" -> "d"
      [] ch = "U" -> "u"
      [] ch = "K" -> "k"
      [] ch = "O" -> "o"
      [] OTHER -> ch

Lower(s) == [i \in 1..Len(s) |-> LowerChar(s[i])]

\* q in s (substring test of two str values)
Contains(q, s) ==
    \E i \in 0..Len(s) : i + Len(q) <= Len(s) /\ SubSeq(s, i + 1, i + Len(q)) = q

\* ------------------------------------------------- capabilities documents
\* A child element is absent (<<>>) or present with its .text (<<text>>),
\* the text being None (<<>>) for an empty element or a str (<<s>>).
Absent == <<>>
Elem(text) == <<text>>
NoText == None
Text(s) == Some(s)

\* One Layer element of the document, as root.findall('.//wms:Layer') yields
\* it: its Name, Title and Abstract children, the texts of its CRS children
\* and its queryable attribute.
LayerElem(name, title, abstract, crs, queryable) ==
    [Name |-> name, Title |-> title, Abstract |-> abstract, CRS |-> crs,
     queryable |-> queryable]

Epsg4326 == <<"4", "3", "2", "6">>
Png == <<"p", "n", "g">>
Plain == <<"t", "x", "t">>

\* the response bodies the WMS endpoint may send: the Service element's Title
\* and Abstract, the Format texts under GetMap and GetFeatureInfo, and the
\* Layer elements in document order
DocSoil ==
    [wellformed |-> TRUE,
     service |-> Elem([Title |-> Elem(Text(Ukso)), Abstract |-> Absent]),
     map_formats |-> <<Text(Png), NoText>>,
     info_formats |-> <<Text(Plain)>>,
     layer_elems |-> <<
        LayerElem(Absent, Elem(Text(Ukso)), Absent, <<>>, "0"),
        LayerElem(Elem(Text(Soil)), Elem(Text(SoilDepth)), Elem(Text(Geo)),
                  <<Text(Epsg4326), NoText>>, "1"),
        LayerElem(Elem(Text(Geo)), Absent, Absent, <<>>, "0") >>]

DocGeo ==
    [wellformed |-> TRUE,
     service |-> Absent,
     map_formats |-> <<>>,
     info_formats |-> <<>>,
     layer_elems |-> <<
        LayerElem(Elem(NoText), Elem(Text(Ukso)), Absent, <<>>, "0"),
        LayerElem(Elem(Text(Geo)), Elem(NoText), Elem(NoText), <<>>, "1") >>]

DocMalformed ==
    [wellformed |-> FALSE, service |-> Absent, map_formats |-> <<>>,
     info_formats |-> <<>>, layer_elems |-> <<>>]

Documents == {DocSoil, DocGeo, DocMalformed}

\* the arguments the lookups are called with
LayerNames == {Soil}
Queries == {Geo}

\* --------------------------------------------------------------- parser
\* truth value of an element's .text: None and "" are false
Truthy(text) == text # None /\ text[1] # <<>>

\* the texts of a sequence that are truthy, in order
RECURSIVE TruthyTexts(_)
TruthyTexts(texts) ==
    IF texts = <<>> THEN <<>>
    ELSE (IF Truthy(Head(texts)) THEN <<Head(texts)[1]>> ELSE <<>>)
         \o TruthyTexts(Tail(texts))

\* _parse_layer: name, title (the Title text, or name when there is no Title
\* element), abstract, crs_list, queryable
_parse_layer(layer_elem) ==
    LET name == IF layer_elem.Name # Absent THEN layer_elem.Name[1] ELSE Some(<<>>)
        title == IF layer_elem.Title # Absent THEN layer_elem.Title[1] ELSE name
        abstract == IF layer_elem.Abstract # Absent THEN layer_elem.Abstract[1] ELSE None
    IN  [name |-> name, title |-> title, abstract |-> abstract,
         crs_list |-> TruthyTexts(layer_elem.CRS),
         queryable |-> (layer_elem.queryable = "1")]

\* the loop of lines 103-107: a Layer element is kept when it has a Name
\* child whose text is truthy
\* mutant: a Layer element with a Title is kept even without a Name
RECURSIVE ParseLayers_TitleSuffices(_)
ParseLayers_TitleSuffices(layer_elems) ==
    IF layer_elems = <<>> THEN <<>>
    ELSE LET layer_elem == Head(layer_elems)
         IN  (IF \/ layer_elem.Name # Absent /\ Truthy(layer_elem.Name[1])
                 \/ layer_elem.Title # Absent
              THEN <<_parse_layer(layer_elem)>> ELSE <<>>)
             \o ParseLayers_TitleSuffices(Tail(layer_elems))

RECURSIVE ParseLayers(_)
ParseLayers(layer_elems) ==
    IF layer_elems = <<>> THEN <<>>
    ELSE LET layer_elem == Head(layer_elems)
         IN  (IF layer_elem.Name # Absent /\ Truthy(layer_elem.Name[1])
              THEN <<_parse_layer(layer_elem)>> ELSE <<>>)
             \o ParseLayers(Tail(layer_elems))

DefaultTitle == Some(<<"B", "G", "S">>)

\* _parse_capabilities(xml_content, version), evaluated at time n, the dict it
\* builds being object number id: raised for a document ET.fromstring
\* rejects, otherwise the Capabilities dict
_parse_capabilities(xml_content, version, n, id) ==
    IF ~xml_content.wellformed
    THEN [raised |-> TRUE, value |-> None]
    ELSE LET service_elem == xml_content.service
             title == IF service_elem # Absent /\ service_elem[1].Title # Absent
                      THEN service_elem[1].Title[1] ELSE DefaultTitle
             abstract == IF service_elem # Absent /\ service_elem[1].Abstract # Absent
                         THEN service_elem[1].Abstract[1] ELSE None
         IN  [raised |-> FALSE,
              value |-> Some([id |-> id,
                              title |-> title,
                              abstract |-> abstract,
                              version |-> version,
                              layers |-> ParseLayers(xml_content.layer_elems),
                              formats |-> TruthyTexts(xml_content.map_formats),
                              info_formats |-> TruthyTexts(xml_content.info_formats),
                              cached_at |-> n])]

\* ---------------------------------------------------------- layer index
\* the scan of get_layer_by_name (lines 273-276): the first layer whose name
\* equals the argument, or None
\* mutant: the names are compared without regard to case
RECURSIVE FirstNamed_IgnoreCase(_, _)
FirstNamed_IgnoreCase(layers, name) ==
    IF layers = <<>> THEN None
    ELSE IF Lower(Head(layers).name[1]) = Lower(name) THEN Some(Head(layers))
    ELSE FirstNamed_IgnoreCase(Tail(layers), name)

RECURSIVE FirstNamed(_, _)
FirstNamed(layers, name) ==
    IF layers = <<>> THEN None
    ELSE IF Head(layers).name = Some(name) THEN Some(Head(layers))
    ELSE FirstNamed(Tail(layers), name)

\* layer.get('abstract', '').lower() if layer.get('abstract') else ''
AbstractLower(layer) ==
    IF Truthy(layer.abstract) THEN Lower(layer.abstract[1]) ELSE <<>>

\* the test of lines 289-291 on one layer
LayerMatches(layer, query_lower) ==
    \/ Contains(query_lower, Lower(layer.name[1]))
    \/ Contains(query_lower, Lower(layer.title[1]))
    \/ Contains(query_lower, AbstractLower(layer))

RECURSIVE MatchingLayers(_, _)
MatchingLayers(layers, query_lower) ==
    IF layers = <<>> THEN <<>>
    ELSE (IF LayerMatches(Head(layers), query_lower) THEN <<Head(layers)>> ELSE <<>>)
         \o MatchingLayers(Tail(layers), query_lower)

\* layer.get('name', '').lower() and layer.get('title', '').lower() raise
\* AttributeError when the value stored under the key is None
LowerRaises(layers) ==
    \E i \in 1..Len(layers) : layers[i].name = None \/ layers[i].title = None

\* ------------------------------------------------------------ the state
VARIABLES
    now,                  \* datetime.now(), in minutes
    nreq,                 \* number of HTTP requests issued so far
    base_url,             \* self.base_url of each client
    _capabilities_cache,  \* self._capabilities_cache of each client
    _cache_timestamp,     \* self._cache_timestamp of each client
    ts_fetch,             \* history: the fetch whose call stored _cache_timestamp
    last_stored,          \* history: what line 54 last stored in each client
    last_failed,          \* history: each client's latest fetch raised
    pc,                   \* the statement each caller is at
    frame,                \* the arguments and locals of each caller's call
    result,               \* what each caller's last call returned or raised
    hist,                 \* history of each caller's call
    tools,                \* self.tools of the MinimalMCP server
    registered,           \* history: the names tool() registered functions under
    nread,                \* history: the lines _run_server read from stdin
    stdout,               \* history: for each line printed to stdout, the
                          \* number of the line read that it answers
    wms_client,           \* the global wms_client of main.py
    created               \* history: the WMSClient instances main.py created

vars == <<now, nreq, base_url, _capabilities_cache, _cache_timestamp, ts_fetch,
          last_stored, last_failed, pc, frame, result, hist, tools,
          registered, nread, stdout, wms_client, created>>

\* the fields of the MinimalMCP server, its standard streams, and the
\* global of main.py
registry_vars == <<tools, registered>>
stdio_vars == <<nread, stdout>>
main_vars == <<wms_client, created>>
server_vars == <<registry_vars, stdio_vars, main_vars>>

\* the fields of the clients and the histories kept with them
client_vars == <<base_url, _capabilities_cache, _cache_timestamp, ts_fetch,
                 last_stored, last_failed>>

NoFrame ==
    [op |-> "none", self |-> "c1", version |-> DefaultVersion, force_refresh |-> FALSE,
     arg |-> <<>>, content |-> None, request_no |-> 0, capabilities |-> None]

NoResult ==
    [status |-> "none", exc |-> "", caps |-> None, layer |-> None, layers |-> <<>>]

\* history of a call: the requests it issued, the branch its cache test took,
\* the fetch whose timestamp line 38 compared, what the endpoint answered,
\* and the clock and the client's fields when it was made
NoHist ==
    [issued |-> 0, path |-> "none", ts_seen |-> 0, response |-> "none",
     called_at |-> 0, pre_cache |-> None, pre_ts |-> None, after_failure |-> FALSE]

\* WMSClient.__init__ of every client; no caller has called yet
Init ==
    /\ now = 0
    /\ nreq = 0
    /\ base_url = [c \in Clients |-> BaseUrlOf(c)]
    /\ _capabilities_cache = [c \in Clients |-> None]
    /\ _cache_timestamp = [c \in Clients |-> None]
    /\ ts_fetch = [c \in Clients |-> 0]
    /\ last_stored = [c \in Clients |-> None]
    /\ last_failed = [c \in Clients |-> FALSE]
    /\ pc = [t \in Callers |-> "idle"]
    /\ frame = [t \in Callers |-> NoFrame]
    /\ result = [t \in Callers |-> NoResult]
    /\ hist = [t \in Callers |-> NoHist]
    /\ tools = <<>>
    /\ registered = {}
    /\ nread = 0
    /\ stdout = <<>>
    /\ wms_client = None
    /\ created = 0

InFlight(t) == pc[t] \notin {"idle", "done"}

\* ------------------------------------------------------ entering a call
\* caller t enters get_capabilities on client c, directly or from a lookup
Enter(t, op, c, version, force_refresh, arg) ==
    /\ ~InFlight(t)
    /\ pc' = [pc EXCEPT ![t] = "L35"]
    /\ frame' = [frame EXCEPT ![t] =
            [op |-> op, self |-> c, version |-> version, force_refresh |-> force_refresh,
             arg |-> arg, content |-> None, request_no |-> 0, capabilities |-> None]]
    /\ result' = [result EXCEPT ![t] = NoResult]
    /\ hist' = [hist EXCEPT ![t] =
            [issued |-> 0, path |-> "none", ts_seen |-> 0, response |-> "none",
             called_at |-> now,
             pre_cache |-> _capabilities_cache[c], pre_ts |-> _cache_timestamp[c],
             after_failure |-> last_failed[c]]]
    /\ UNCHANGED <<server_vars, now, nreq, client_vars>>

\* client.get_capabilities(version, force_refresh)
get_capabilities(t, c, versions) ==
    \E version \in versions, force_refresh \in BOOLEAN :
        Enter(t, "get_capabilities", c, version, force_refresh, <<>>)

\* mutant: the lookup refreshes the catalog every time
get_layer_by_name_Forced(t, c, names) ==
    \E name \in names :
        Enter(t, "get_layer_by_name", c, DefaultVersion, TRUE, name)

\* client.get_layer_by_name(name): line 272 calls self.get_capabilities()
get_layer_by_name(t, c, names) ==
    \E name \in names :
        Enter(t, "get_layer_by_name", c, DefaultVersion, FALSE, name)

\* mutant: the search asks get_capabilities for version 1.1.1
search_layers_OtherVersion(t, c, queries) ==
    \E query \in queries :
        Enter(t, "search_layers", c, "1.1.1", FALSE, query)

\* client.search_layers(query): line 280 calls self.get_capabilities()
search_layers(t, c, queries) ==
    \E query \in queries :
        Enter(t, "search_layers", c, DefaultVersion, FALSE, query)

\* ------------------------------------------------- leaving a call
\* what the operation does with the Capabilities get_capabilities returned
Outcome(op, arg, capabilities) ==
    CASE op = "get_layer_by_name" ->
            [status |-> "returned", exc |-> "", caps |-> Some(capabilities),
             layer |-> FirstNamed(capabilities.layers, arg), layers |-> <<>>]
      [] op = "search_layers" ->
            IF LowerRaises(capabilities.layers)
            THEN [status |-> "raised", exc |-> "AttributeError",
                  caps |-> Some(capabilities), layer |-> None, layers |-> <<>>]
            ELSE [status |-> "returned", exc |-> "", caps |-> Some(capabilities),
                  layer |-> None,
                  layers |-> MatchingLayers(capabilities.layers, Lower(arg))]
      [] OTHER ->
            [status |-> "returned", exc |-> "", caps |-> Some(capabilities),
             layer |-> None, layers |-> <<>>]

\* the locals of get_capabilities die when it returns or raises
Left(f) == [f EXCEPT !.content = None, !.request_no = 0, !.capabilities = None]

\* get_capabilities raises (lines 58-60 log and re-raise; the lookups do not
\* catch it)
Raised(exc) ==
    [status |-> "raised", exc |-> exc, caps |-> None, layer |-> None, layers |-> <<>>]

\* ------------------------------------------------- the cache test, 35-39
\* mutant: the duration taken as half an hour
IsFresh_HalfHour(timestamp, n) == n - timestamp < 30

\* mutant: a catalog exactly one cache duration old still counts as fresh
IsFresh_Inclusive(timestamp, n) == n - timestamp <= CacheDuration

\* datetime.now() - self._cache_timestamp < self._cache_duration
IsFresh(timestamp, n) == n - timestamp < CacheDuration

\* mutant: force_refresh is not looked at
L35_IgnoreForce(t) ==
    /\ pc[t] = "L35"
    /\ IF _capabilities_cache[frame[t].self] = None
       THEN /\ pc' = [pc EXCEPT ![t] = "L47"]
            /\ hist' = [hist EXCEPT ![t].path = "absent"]
       ELSE /\ pc' = [pc EXCEPT ![t] = "L37"]
            /\ hist' = hist
    /\ UNCHANGED <<server_vars, now, nreq, client_vars, frame, result>>

\* mutant: a cache stamped with another version counts as absent
L35_VersionKeyed(t) ==
    /\ pc[t] = "L35"
    /\ IF frame[t].force_refresh
       THEN /\ pc' = [pc EXCEPT ![t] = "L47"]
            /\ hist' = [hist EXCEPT ![t].path = "forced"]
       ELSE IF \/ _capabilities_cache[frame[t].self] = None
               \/ _capabilities_cache[frame[t].self][1].version # frame[t].version
       THEN /\ pc' = [pc EXCEPT ![t] = "L47"]
            /\ hist' = [hist EXCEPT ![t].path = "absent"]
       ELSE /\ pc' = [pc EXCEPT ![t] = "L37"]
            /\ hist' = hist
    /\ UNCHANGED <<server_vars, now, nreq, client_vars, frame, result>>

\* line 35-36: not force_refresh and self._capabilities_cache
L35(t) ==
    /\ pc[t] = "L35"
    /\ IF frame[t].force_refresh
       THEN /\ pc' = [pc EXCEPT ![t] = "L47"]
            /\ hist' = [hist EXCEPT ![t].path = "forced"]
       ELSE IF _capabilities_cache[frame[t].self] = None
       THEN /\ pc' = [pc EXCEPT ![t] = "L47"]
            /\ hist' = [hist EXCEPT ![t].path = "absent"]
       ELSE /\ pc' = [pc EXCEPT ![t] = "L37"]
            /\ hist' = hist
    /\ UNCHANGED <<server_vars, now, nreq, client_vars, frame, result>>

\* line 37: and self._cache_timestamp
L37(t) ==
    /\ pc[t] = "L37"
    /\ IF _cache_timestamp[frame[t].self] = None
       THEN /\ pc' = [pc EXCEPT ![t] = "L47"]
            /\ hist' = [hist EXCEPT ![t].path = "absent"]
       ELSE /\ pc' = [pc EXCEPT ![t] = "L38"]
            /\ hist' = hist
    /\ UNCHANGED <<server_vars, now, nreq, client_vars, frame, result>>

\* line 38: and datetime.now() - self._cache_timestamp < self._cache_duration
L38(t) ==
    /\ pc[t] = "L38"
    /\ IF IsFresh(_cache_timestamp[frame[t].self][1], now)
       THEN /\ pc' = [pc EXCEPT ![t] = "L39"]
            /\ hist' = [hist EXCEPT ![t].path = "hit",
                                    ![t].ts_seen = ts_fetch[frame[t].self]]
       ELSE /\ pc' = [pc EXCEPT ![t] = "L47"]
            /\ hist' = [hist EXCEPT ![t].path = "expired"]
    /\ UNCHANGED <<server_vars, now, nreq, client_vars, frame, result>>

\* line 39: return self._capabilities_cache
L39(t) ==
    /\ pc[t] = "L39"
    /\ pc' = [pc EXCEPT ![t] = "done"]
    /\ result' = [result EXCEPT ![t] =
            Outcome(frame[t].op, frame[t].arg, _capabilities_cache[frame[t].self][1])]
    /\ frame' = [frame EXCEPT ![t] = Left(@)]
    /\ UNCHANGED <<server_vars, now, nreq, client_vars, hist>>

\* ------------------------------------------------- the fetch, 41-60
\* mutant: a transport failure empties the cache
L47_DropCacheOnFailure(t) ==
    /\ pc[t] = "L47"
    /\ nreq < MaxRequests
    /\ nreq' = nreq + 1
    /\ \/ \E doc \in Documents :
            /\ frame' = [frame EXCEPT ![t].content = Some(doc),
                                      ![t].request_no = nreq + 1]
            /\ hist' = [hist EXCEPT ![t].issued = @ + 1,
                                    ![t].response = IF doc.wellformed THEN "document"
                                                    ELSE "malformed"]
            /\ pc' = [pc EXCEPT ![t] = "L53"]
            /\ UNCHANGED <<result, last_failed, _capabilities_cache, _cache_timestamp>>
       \/ /\ frame' = [frame EXCEPT ![t] = Left(@)]
          /\ hist' = [hist EXCEPT ![t].issued = @ + 1,
                                  ![t].response = "transport failure"]
          /\ pc' = [pc EXCEPT ![t] = "done"]
          /\ result' = [result EXCEPT ![t] = Raised("URLError")]
          /\ last_failed' = [last_failed EXCEPT ![frame[t].self] = TRUE]
          /\ _capabilities_cache' = [_capabilities_cache EXCEPT ![frame[t].self] = None]
          /\ _cache_timestamp' = [_cache_timestamp EXCEPT ![frame[t].self] = None]
    /\ UNCHANGED <<server_vars, now, base_url, ts_fetch, last_stored>>

\* mutant: a request that failed is issued once more before the call raises
L47_RetryOnFailure(t) ==
    /\ pc[t] = "L47"
    /\ nreq < MaxRequests
    /\ nreq' = nreq + 1
    /\ \/ \E doc \in Documents :
            /\ frame' = [frame EXCEPT ![t].content = Some(doc),
                                      ![t].request_no = nreq + 1]
            /\ hist' = [hist EXCEPT ![t].issued = @ + 1,
                                    ![t].response = IF doc.wellformed THEN "document"
                                                    ELSE "malformed"]
            /\ pc' = [pc EXCEPT ![t] = "L53"]
            /\ UNCHANGED <<result, last_failed>>
       \/ /\ hist[t].issued = 0
          /\ hist' = [hist EXCEPT ![t].issued = @ + 1,
                                  ![t].response = "transport failure"]
          /\ UNCHANGED <<pc, frame, result, last_failed>>
       \/ /\ hist[t].issued > 0
          /\ frame' = [frame EXCEPT ![t] = Left(@)]
          /\ hist' = [hist EXCEPT ![t].issued = @ + 1,
                                  ![t].response = "transport failure"]
          /\ pc' = [pc EXCEPT ![t] = "done"]
          /\ result' = [result EXCEPT ![t] = Raised("URLError")]
          /\ last_failed' = [last_failed EXCEPT ![frame[t].self] = TRUE]
    /\ UNCHANGED <<server_vars, now, base_url, _capabilities_cache, _cache_timestamp, ts_fetch,
                   last_stored>>

\* lines 41-51: build the URL and urlopen it; the endpoint answers with a
\* document or the transport fails
L47(t) ==
    /\ pc[t] = "L47"
    /\ nreq < MaxRequests
    /\ nreq' = nreq + 1
    /\ \/ \E doc \in Documents :
            /\ frame' = [frame EXCEPT ![t].content = Some(doc),
                                      ![t].request_no = nreq + 1]
            /\ hist' = [hist EXCEPT ![t].issued = @ + 1,
                                    ![t].response = IF doc.wellformed THEN "document"
                                                    ELSE "malformed"]
            /\ pc' = [pc EXCEPT ![t] = "L53"]
            /\ UNCHANGED <<result, last_failed>>
       \/ /\ frame' = [frame EXCEPT ![t] = Left(@)]
          /\ hist' = [hist EXCEPT ![t].issued = @ + 1,
                                  ![t].response = "transport failure"]
          /\ pc' = [pc EXCEPT ![t] = "done"]
          /\ result' = [result EXCEPT ![t] = Raised("URLError")]
          /\ last_failed' = [last_failed EXCEPT ![frame[t].self] = TRUE]
    /\ UNCHANGED <<server_vars, now, base_url, _capabilities_cache, _cache_timestamp, ts_fetch,
                   last_stored>>

\* mutant: the timestamp is taken before the parse, so a parse failure
\* leaves a new timestamp behind
L53_StampBeforeParse(t) ==
    /\ pc[t] = "L53"
    /\ _cache_timestamp' = [_cache_timestamp EXCEPT ![frame[t].self] = Some(now)]
    /\ LET parsed == _parse_capabilities(frame[t].content[1], frame[t].version, now,
                                         frame[t].request_no)
       IN  IF parsed.raised
           THEN /\ pc' = [pc EXCEPT ![t] = "done"]
                /\ result' = [result EXCEPT ![t] = Raised("ParseError")]
                /\ frame' = [frame EXCEPT ![t] = Left(@)]
                /\ last_failed' = [last_failed EXCEPT ![frame[t].self] = TRUE]
           ELSE /\ pc' = [pc EXCEPT ![t] = "L54"]
                /\ frame' = [frame EXCEPT ![t].capabilities = parsed.value,
                                          ![t].content = None]
                /\ UNCHANGED <<result, last_failed>>
    /\ UNCHANGED <<server_vars, now, nreq, base_url, _capabilities_cache, ts_fetch,
                   last_stored, hist>>

\* line 53: capabilities = self._parse_capabilities(content, version)
L53(t) ==
    /\ pc[t] = "L53"
    /\ LET parsed == _parse_capabilities(frame[t].content[1], frame[t].version, now,
                                         frame[t].request_no)
       IN  IF parsed.raised
           THEN /\ pc' = [pc EXCEPT ![t] = "done"]
                /\ result' = [result EXCEPT ![t] = Raised("ParseError")]
                /\ frame' = [frame EXCEPT ![t] = Left(@)]
                /\ last_failed' = [last_failed EXCEPT ![frame[t].self] = TRUE]
           ELSE /\ pc' = [pc EXCEPT ![t] = "L54"]
                /\ frame' = [frame EXCEPT ![t].capabilities = parsed.value,
                                          ![t].content = None]
                /\ UNCHANGED <<result, last_failed>>
    /\ UNCHANGED <<server_vars, now, nreq, base_url, _capabilities_cache, _cache_timestamp, ts_fetch,
                   last_stored, hist>>

\* mutant: the cache is a class attribute, one for all instances
L54_SharedCache(t) ==
    /\ pc[t] = "L54"
    /\ _capabilities_cache' = [c \in Clients |-> frame[t].capabilities]
    /\ last_stored' = [last_stored EXCEPT ![frame[t].self] = frame[t].capabilities]
    /\ last_failed' = [last_failed EXCEPT ![frame[t].self] = FALSE]
    /\ pc' = [pc EXCEPT ![t] = "L55"]
    /\ UNCHANGED <<server_vars, now, nreq, base_url, _cache_timestamp, ts_fetch, frame, result, hist>>

\* mutant: a result older than the one cached is not stored
L54_KeepNewest(t) ==
    /\ pc[t] = "L54"
    /\ _capabilities_cache' =
            IF /\ _capabilities_cache[frame[t].self] # None
               /\ _capabilities_cache[frame[t].self][1].id > frame[t].capabilities[1].id
            THEN _capabilities_cache
            ELSE [_capabilities_cache EXCEPT ![frame[t].self] = frame[t].capabilities]
    /\ last_stored' = [last_stored EXCEPT ![frame[t].self] = frame[t].capabilities]
    /\ last_failed' = [last_failed EXCEPT ![frame[t].self] = FALSE]
    /\ pc' = [pc EXCEPT ![t] = "L55"]
    /\ UNCHANGED <<server_vars, now, nreq, base_url, _cache_timestamp, ts_fetch, frame, result, hist>>

\* line 54: self._capabilities_cache = capabilities
L54(t) ==
    /\ pc[t] = "L54"
    /\ _capabilities_cache' =
            [_capabilities_cache EXCEPT ![frame[t].self] = frame[t].capabilities]
    /\ last_stored' = [last_stored EXCEPT ![frame[t].self] = frame[t].capabilities]
    /\ last_failed' = [last_failed EXCEPT ![frame[t].self] = FALSE]
    /\ pc' = [pc EXCEPT ![t] = "L55"]
    /\ UNCHANGED <<server_vars, now, nreq, base_url, _cache_timestamp, ts_fetch, frame, result, hist>>

\* mutant: the timestamp of the first fetch is kept
L55_KeepTimestamp(t) ==
    /\ pc[t] = "L55"
    /\ IF _cache_timestamp[frame[t].self] = None
       THEN /\ _cache_timestamp' = [_cache_timestamp EXCEPT ![frame[t].self] = Some(now)]
            /\ ts_fetch' = [ts_fetch EXCEPT ![frame[t].self] = frame[t].capabilities[1].id]
       ELSE UNCHANGED <<_cache_timestamp, ts_fetch>>
    /\ pc' = [pc EXCEPT ![t] = "L56"]
    /\ UNCHANGED <<server_vars, now, nreq, base_url, _capabilities_cache, last_stored, last_failed,
                   frame, result, hist>>

\* line 55: self._cache_timestamp = datetime.now()
L55(t) ==
    /\ pc[t] = "L55"
    /\ _cache_timestamp' = [_cache_timestamp EXCEPT ![frame[t].self] = Some(now)]
    /\ ts_fetch' = [ts_fetch EXCEPT ![frame[t].self] = frame[t].capabilities[1].id]
    /\ pc' = [pc EXCEPT ![t] = "L56"]
    /\ UNCHANGED <<server_vars, now, nreq, base_url, _capabilities_cache, last_stored, last_failed,
                   frame, result, hist>>

\* line 56: return capabilities
L56(t) ==
    /\ pc[t] = "L56"
    /\ pc' = [pc EXCEPT ![t] = "done"]
    /\ result' = [result EXCEPT ![t] =
            Outcome(frame[t].op, frame[t].arg, frame[t].capabilities[1])]
    /\ frame' = [frame EXCEPT ![t] = Left(@)]
    /\ UNCHANGED <<server_vars, now, nreq, client_vars, hist>>

\* ------------------------------------------------------------ the clock
Tick(steps) ==
    /\ \E d \in steps : now + d <= MaxNow /\ now' = now + d
    /\ UNCHANGED <<server_vars, nreq, client_vars, pc, frame, result, hist>>

\* one statement of a call in progress
Statement(t) ==
    \/ L35(t)
    \/ L37(t)
    \/ L38(t)
    \/ L39(t)
    \/ L47(t)
    \/ L53(t)
    \/ L54(t)
    \/ L55(t)
    \/ L56(t)

\* the event loop: one call at a time, on either client
Next ==
    \/ \E c \in Clients :
          \/ get_capabilities(LoopCaller, c, Versions)
          \/ get_layer_by_name(LoopCaller, c, LayerNames)
          \/ search_layers(LoopCaller, c, Queries)
    \/ Statement(LoopCaller)
    \/ Tick(TickSteps)

Spec == Init /\ [][Next]_vars

\* threads: concurrent get_capabilities() calls on the shared client
NextThreads ==
    \/ \E t \in Callers :
          \/ get_capabilities(t, SharedClient, {DefaultVersion})
          \/ Statement(t)
    \/ Tick(LongSteps)

SpecThreads == Init /\ [][NextThreads]_vars

\* ------------------------------------------- the layer index on its own
\* at most MaxLayers Layer elements in a document of IndexDocuments
MaxLayers == 2

SoilLower == <<"s", "o", "i", "l">>

\* Layer elements: a layer with title and abstract, a layer with no Title
\* element, a layer whose Title element is empty, a second layer named
\* "Soil", and a Layer element with no Name
IndexLayerElems ==
    { LayerElem(Elem(Text(Soil)), Elem(Text(SoilDepth)), Elem(Text(Geo)), <<>>, "1"),
      LayerElem(Elem(Text(SoilLower)), Absent, Absent, <<>>, "0"),
      LayerElem(Elem(Text(Geo)), Elem(NoText), Absent, <<>>, "0"),
      LayerElem(Elem(Text(Soil)), Elem(Text(Ukso)), Elem(NoText), <<>>, "0"),
      LayerElem(Absent, Elem(Text(Soil)), Absent, <<>>, "0") }

\* the documents made of up to MaxLayers of these elements, in any order
IndexDocuments ==
    { [wellformed |-> TRUE, service |-> Absent, map_formats |-> <<>>,
       info_formats |-> <<>>, layer_elems |-> layer_elems] :
      layer_elems \in UNION { [1..n -> IndexLayerElems] : n \in 0..MaxLayers } }

\* the arguments of the lookups: names in both cases and a name no layer has;
\* the empty query, an upper-case query, a query found only in an abstract
\* and a query nothing contains
IndexNames == {Soil, SoilLower, Geo, Ukso}
IndexQueries == {<<>>, <<"S", "O">>, Geo, <<"x">>}

\* the state after get_capabilities() of the loop's caller fetched and
\* cached one of IndexDocuments on the shared client (lines 35-56)
InitIndex ==
    \E doc \in IndexDocuments :
        LET capabilities == _parse_capabilities(doc, DefaultVersion, 0, 1).value
        IN  /\ now = 0
            /\ nreq = 1
            /\ base_url = [c \in Clients |-> BaseUrlOf(c)]
            /\ _capabilities_cache =
                    [c \in Clients |-> IF c = SharedClient THEN capabilities ELSE None]
            /\ _cache_timestamp =
                    [c \in Clients |-> IF c = SharedClient THEN Some(0) ELSE None]
            /\ ts_fetch = [c \in Clients |-> IF c = SharedClient THEN 1 ELSE 0]
            /\ last_stored =
                    [c \in Clients |-> IF c = SharedClient THEN capabilities ELSE None]
            /\ last_failed = [c \in Clients |-> FALSE]
            /\ pc = [t \in Callers |-> IF t = LoopCaller THEN "done" ELSE "idle"]
            /\ frame = [t \in Callers |->
                    IF t = LoopCaller
                    THEN [NoFrame EXCEPT !.op = "get_capabilities", !.self = SharedClient]
                    ELSE NoFrame]
            /\ result = [t \in Callers |->
                    IF t = LoopCaller
                    THEN Outcome("get_capabilities", <<>>, capabilities[1])
                    ELSE NoResult]
            /\ hist = [t \in Callers |->
                    IF t = LoopCaller
                    THEN [NoHist EXCEPT !.issued = 1, !.path = "absent",
                                        !.response = "document"]
                    ELSE NoHist]
            /\ tools = <<>>
            /\ registered = {}
            /\ nread = 0
            /\ stdout = <<>>
            /\ wms_client = None
            /\ created = 0

\* lookups on the cached catalog, one at a time
NextIndex ==
    \/ get_layer_by_name(LoopCaller, SharedClient, IndexNames)
    \/ search_layers(LoopCaller, SharedClient, IndexQueries)
    \/ L35(LoopCaller)
    \/ L37(LoopCaller)
    \/ L38(LoopCaller)
    \/ L39(LoopCaller)

SpecIndex == InitIndex /\ [][NextIndex]_vars

\* ------------------------------------------------------ the URL builder
Crs4326 == <<"E", "P", "S", "G", ":", "4", "3", "2", "6">>
Crs27700 == <<"E", "P", "S", "G", ":", "2", "7", "7", "0", "0">>
Crs3857 == <<"E", "P", "S", "G", ":", "3", "8", "5", "7">>
ImagePng == <<"i", "m", "a", "g", "e", "/", "p", "n", "g">>
TextPlain == <<"t", "e", "x", "t", "/", "p", "l", "a", "i", "n">>
White == <<"0", "x", "F", "F", "F", "F", "F", "F">>
GetMapStr == <<"G", "e", "t", "M", "a", "p">>
GetFeatureInfoStr ==
    <<"G", "e", "t", "F", "e", "a", "t", "u", "r", "e", "I", "n", "f", "o">>
Wms == <<"W", "M", "S">>
V130 == <<"1", ".", "3", ".", "0">>
V111 == <<"1", ".", "1", ".", "1">>
V13 == <<"1", ".", "3">>

\* the version argument as a str: the names above for the known versions
VersionStr(version) ==
    CASE version = "1.3.0" -> V130
      [] version = "1.1.1" -> V111
      [] OTHER -> V13

\* str() of an int
Digit(d) == <<"0", "1", "2", "3", "4", "5", "6", "7", "8", "9">>[d + 1]

RECURSIVE NatStr(_)
NatStr(n) == IF n < 10 THEN <<Digit(n)>> ELSE NatStr(n \div 10) \o <<Digit(n % 10)>>

IntStr(i) == IF i < 0 THEN <<"-">> \o NatStr(-i) ELSE NatStr(i)

\* str() of a float whose value is a whole number: "-6.0"
FloatStr(x) == IntStr(x) \o <<".", "0">>

\* str(b).lower() of a bool
BoolLower(b) == IF b THEN <<"t", "r", "u", "e">> ELSE <<"f", "a", "l", "s", "e">>

\* ",".join(layers)
RECURSIVE Join(_)
Join(names) ==
    IF names = <<>> THEN <<>>
    ELSE IF Len(names) = 1 THEN names[1]
    ELSE names[1] \o <<",">> \o Join(Tail(names))

\* urllib.parse.quote_plus on the characters the values use
QuoteChar(ch) ==
    CASE ch = ":" -> <<"%", "3", "A">>
      [] ch = "," -> <<"%", "2", "C">>
      [] ch = "/" -> <<"%", "2", "F">>
      [] ch = " " -> <<"+">>
      [] OTHER -> <<ch>>

RECURSIVE QuotePlus(_)
QuotePlus(s) == IF s = <<>> THEN <<>> ELSE QuoteChar(Head(s)) \o QuotePlus(Tail(s))

\* urlencode(params): the items of the dict in insertion order, each value
\* quoted; an item is <<key, quoted value>>
UrlEncode(params) == [i \in 1..Len(params) |-> <<params[i][1], QuotePlus(params[i][2])>>]

\* f"{self.base_url}?{urllib.parse.urlencode(params)}"
Url(base, params) == [base |-> base, query |-> UrlEncode(params)]

\* BoundingBox(min_x, min_y, max_x, max_y, crs)
BoundingBox(min_x, min_y, max_x, max_y, crs) ==
    [min_x |-> min_x, min_y |-> min_y, max_x |-> max_x, max_y |-> max_y, crs |-> crs]

\* f"{bbox.min_x},{bbox.min_y},{bbox.max_x},{bbox.max_y}"
BboxStr(bbox) ==
    FloatStr(bbox.min_x) \o <<",">> \o FloatStr(bbox.min_y) \o <<",">>
    \o FloatStr(bbox.max_x) \o <<",">> \o FloatStr(bbox.max_y)

\* lines 165-166 and 207-208: a list of names is joined, a str is kept
LayersStr(layers) == IF layers.islist THEN Join(layers.value) ELSE layers.value

\* mutant: the CRS of the bounding box wins over the argument
CrsOf_BboxWins(crs, bbox) == bbox.crs

\* lines 168-169 and 210-211: crs defaults to bbox.crs
CrsOf(crs, bbox) == IF crs = None THEN bbox.crs ELSE crs[1]

\* mutant: the key is crs for every version, with srs added for the others
VersionParams_BothKeys(version, crs, bbox) ==
    IF version = "1.3.0"
    THEN << <<"crs", crs>>, <<"bbox", BboxStr(bbox)>> >>
    ELSE << <<"crs", crs>>, <<"srs", crs>>, <<"bbox", BboxStr(bbox)>> >>

\* lines 184-189 and 228-233: the CRS key and the bbox
VersionParams(version, crs, bbox) ==
    IF version = "1.3.0"
    THEN << <<"crs", crs>>, <<"bbox", BboxStr(bbox)>> >>
    ELSE << <<"srs", crs>>, <<"bbox", BboxStr(bbox)>> >>

\* the URL get_map returns (lines 165-191)
GetMapUrl(base, f) ==
    Url(base,
        << <<"service", Wms>>, <<"request", GetMapStr>>,
           <<"version", VersionStr(f.version)>>,
           <<"layers", LayersStr(f.layers)>>,
           <<"width", IntStr(f.width)>>, <<"height", IntStr(f.height)>>,
           <<"format", f.format>>,
           <<"transparent", BoolLower(f.transparent)>>,
           <<"bgcolor", f.bgcolor>> >>
        \o VersionParams(f.version, CrsOf(f.crs, f.bbox), f.bbox))

\* the URL get_feature_info requests (lines 207-235)
GetFeatureInfoUrl(base, f) ==
    Url(base,
        << <<"service", Wms>>, <<"request", GetFeatureInfoStr>>,
           <<"version", VersionStr(f.version)>>,
           <<"layers", LayersStr(f.layers)>>,
           <<"query_layers", LayersStr(f.layers)>>,
           <<"width", IntStr(f.width)>>, <<"height", IntStr(f.height)>>,
           <<"info_format", f.info_format>>,
           <<"feature_count", IntStr(f.feature_count)>>,
           <<"x", IntStr(f.x)>>, <<"y", IntStr(f.y)>> >>
        \o VersionParams(f.version, CrsOf(f.crs, f.bbox), f.bbox))

\* ------------------------------------ get_map, get_feature_info, convert
\* the arguments the operations are called with
UrlLayers ==
    { [islist |-> FALSE, value |-> Soil],
      [islist |-> TRUE, value |-> <<Soil, Geo>>],
      [islist |-> TRUE, value |-> <<>>] }
UrlBoxes ==
    { BoundingBox(-6, 50, 2, 58, Crs4326), BoundingBox(2, 58, -6, 50, Crs27700) }
UrlCrs == {None, Some(Crs27700), Some(Crs3857)}
UrlVersions == {"1.3.0", "1.1.1", "1.3"}
UrlSizes == {<<800, 600>>, <<-1, 0>>}
Bodies == {<<"o", "k">>}

\* what a call of one of these operations returned or raised, and whether
\* it logged a warning
OpResult(status, exc, value, warned) ==
    [status |-> status, exc |-> exc, value |-> value, warned |-> warned]

\* caller t calls an operation with the arguments of frame f
Call(t, entry, f) ==
    /\ ~InFlight(t)
    /\ pc' = [pc EXCEPT ![t] = entry]
    /\ frame' = [frame EXCEPT ![t] = f]
    /\ result' = [result EXCEPT ![t] = NoResult]
    /\ hist' = [hist EXCEPT ![t] =
            [NoHist EXCEPT !.called_at = now,
                           !.pre_cache = _capabilities_cache[f.self],
                           !.pre_ts = _cache_timestamp[f.self],
                           !.after_failure = last_failed[f.self]]]
    /\ UNCHANGED <<server_vars, now, nreq, client_vars>>

\* client.get_map(layers, bbox, width, height, format, version, crs,
\*                transparent, bgcolor)
get_map(t, c) ==
    \E layers \in UrlLayers, bbox \in UrlBoxes, size \in UrlSizes,
       version \in UrlVersions, crs \in UrlCrs, transparent \in BOOLEAN :
        Call(t, "M165",
             [op |-> "get_map", self |-> c, layers |-> layers, bbox |-> bbox,
              width |-> size[1], height |-> size[2], format |-> ImagePng,
              version |-> version, crs |-> crs, transparent |-> transparent,
              bgcolor |-> White, url |-> None])

\* mutant: negative dimensions are rejected
M165_RejectsNegative(t) ==
    /\ pc[t] = "M165"
    /\ LET url == GetMapUrl(base_url[frame[t].self], frame[t])
       IN  IF frame[t].width < 0 \/ frame[t].height < 0
           THEN /\ frame' = frame
                /\ result' = [result EXCEPT ![t] =
                        OpResult("raised", "ValueError", None, FALSE)]
           ELSE /\ frame' = [frame EXCEPT ![t].url = Some(url)]
                /\ result' = [result EXCEPT ![t] =
                        OpResult("returned", "", Some(url), FALSE)]
    /\ pc' = [pc EXCEPT ![t] = "done"]
    /\ UNCHANGED <<server_vars, now, nreq, client_vars, hist>>

\* lines 165-191: build the URL and return it
M165(t) ==
    /\ pc[t] = "M165"
    /\ LET url == GetMapUrl(base_url[frame[t].self], frame[t])
       IN  /\ frame' = [frame EXCEPT ![t].url = Some(url)]
           /\ result' = [result EXCEPT ![t] = OpResult("returned", "", Some(url), FALSE)]
    /\ pc' = [pc EXCEPT ![t] = "done"]
    /\ UNCHANGED <<server_vars, now, nreq, client_vars, hist>>

\* client.get_feature_info(layers, bbox, x, y, width, height, info_format,
\*                         version, crs, feature_count)
get_feature_info(t, c) ==
    \E layers \in UrlLayers, bbox \in UrlBoxes, version \in UrlVersions,
       crs \in UrlCrs :
        Call(t, "F207",
             [op |-> "get_feature_info", self |-> c, layers |-> layers, bbox |-> bbox,
              x |-> 1, y |-> 2, width |-> 800, height |-> 600,
              info_format |-> TextPlain, version |-> version, crs |-> crs,
              feature_count |-> 10, url |-> None])

\* lines 207-235: build the URL
F207(t) ==
    /\ pc[t] = "F207"
    /\ frame' = [frame EXCEPT ![t].url =
            Some(GetFeatureInfoUrl(base_url[frame[t].self], frame[t]))]
    /\ pc' = [pc EXCEPT ![t] = "F238"]
    /\ UNCHANGED <<server_vars, now, nreq, client_vars, result, hist>>

\* mutant: a failed request invalidates the cached catalog
F238_DropsCacheOnFailure(t) ==
    /\ pc[t] = "F238"
    /\ nreq < MaxRequests
    /\ nreq' = nreq + 1
    /\ \/ \E body \in Bodies :
            /\ result' = [result EXCEPT ![t] = OpResult("returned", "", Some(body), FALSE)]
            /\ hist' = [hist EXCEPT ![t].issued = @ + 1, ![t].response = "document"]
            /\ UNCHANGED <<_capabilities_cache, _cache_timestamp>>
       \/ /\ result' = [result EXCEPT ![t] = OpResult("raised", "URLError", None, FALSE)]
          /\ hist' = [hist EXCEPT ![t].issued = @ + 1,
                                  ![t].response = "transport failure"]
          /\ _capabilities_cache' = [_capabilities_cache EXCEPT ![frame[t].self] = None]
          /\ _cache_timestamp' = [_cache_timestamp EXCEPT ![frame[t].self] = None]
    /\ pc' = [pc EXCEPT ![t] = "done"]
    /\ UNCHANGED <<server_vars, now, base_url, ts_fetch, last_stored, last_failed, frame>>

\* lines 237-242: urlopen the URL and return the decoded body, or log and
\* re-raise what urlopen raised
F238(t) ==
    /\ pc[t] = "F238"
    /\ nreq < MaxRequests
    /\ nreq' = nreq + 1
    /\ \/ \E body \in Bodies :
            /\ result' = [result EXCEPT ![t] = OpResult("returned", "", Some(body), FALSE)]
            /\ hist' = [hist EXCEPT ![t].issued = @ + 1, ![t].response = "document"]
       \/ /\ result' = [result EXCEPT ![t] = OpResult("raised", "URLError", None, FALSE)]
          /\ hist' = [hist EXCEPT ![t].issued = @ + 1,
                                  ![t].response = "transport failure"]
    /\ pc' = [pc EXCEPT ![t] = "done"]
    /\ UNCHANGED <<server_vars, now, client_vars, frame>>

\* ------------------------------------------------- convert_coordinates
\* a float is the fraction num / den; the constant of lines 261 and 264
\* is 111319.9 = ScaleNum / ScaleDen
ScaleNum == 1113199
ScaleDen == 10

Float(num, den) == [num |-> num, den |-> den]

\* x * 111319.9 and x / 111319.9
Times(x) == Float(x.num * ScaleNum, x.den * ScaleDen)
Over(x) == Float(x.num * ScaleDen, x.den * ScaleNum)

\* the points and the CRS identifiers convert_coordinates is called with
Points ==
    { <<Float(1, 1), Float(2, 1)>>, <<Float(-1, 10), Float(515, 10)>> }
CrsNames == {Crs4326, Crs27700, Crs3857}

\* client.convert_coordinates(x, y, source_crs, target_crs)
convert_coordinates(t, c) ==
    \E p \in Points, source_crs \in CrsNames, target_crs \in CrsNames :
        Call(t, "V254",
             [op |-> "convert_coordinates", self |-> c, x |-> p[1], y |-> p[2],
              source_crs |-> source_crs, target_crs |-> target_crs])

\* mutant: the two conversions are tested before the equality of the CRS,
\* and the pass-through is silent
V254_NoWarning(t) ==
    /\ pc[t] = "V254"
    /\ LET f == frame[t]
       IN  result' = [result EXCEPT ![t] =
             IF f.source_crs = Crs4326 /\ f.target_crs = Crs27700
             THEN OpResult("returned", "", Some(<<Times(f.x), Times(f.y)>>), FALSE)
             ELSE IF f.source_crs = Crs27700 /\ f.target_crs = Crs4326
             THEN OpResult("returned", "", Some(<<Over(f.x), Over(f.y)>>), FALSE)
             ELSE OpResult("returned", "", Some(<<f.x, f.y>>), FALSE)]
    /\ pc' = [pc EXCEPT ![t] = "done"]
    /\ UNCHANGED <<server_vars, now, nreq, client_vars, frame, hist>>

\* lines 254-268: the dispatch on the two CRS identifiers
V254(t) ==
    /\ pc[t] = "V254"
    /\ LET f == frame[t]
       IN  result' = [result EXCEPT ![t] =
             IF f.source_crs = f.target_crs
             THEN OpResult("returned", "", Some(<<f.x, f.y>>), FALSE)
             ELSE IF f.source_crs = Crs4326 /\ f.target_crs = Crs27700
             THEN OpResult("returned", "", Some(<<Times(f.x), Times(f.y)>>), FALSE)
             ELSE IF f.source_crs = Crs27700 /\ f.target_crs = Crs4326
             THEN OpResult("returned", "", Some(<<Over(f.x), Over(f.y)>>), FALSE)
             ELSE OpResult("returned", "", Some(<<f.x, f.y>>), TRUE)]
    /\ pc' = [pc EXCEPT ![t] = "done"]
    /\ UNCHANGED <<server_vars, now, nreq, client_vars, frame, hist>>

\* the operations that do not use the catalog, one call at a time
NextOps ==
    \/ \E c \in Clients :
          \/ get_map(LoopCaller, c)
          \/ get_feature_info(LoopCaller, c)
          \/ convert_coordinates(LoopCaller, c)
    \/ M165(LoopCaller)
    \/ F207(LoopCaller)
    \/ F238(LoopCaller)
    \/ V254(LoopCaller)

SpecOps == Init /\ [][NextOps]_vars

\* ------------------------------------------------- the MinimalMCP server
\* self.tools is a dict in insertion order: a sequence of items
\* [name, func], a func being [__name__, __doc__]
Func(name, doc) == [__name__ |-> name, __doc__ |-> doc]

\* the functions main.py decorates, with and without a docstring
Funcs ==
    { Func("get_capabilities", Some("Get WMS service capabilities and available layers")),
      Func("get_map", None) }

\* the name argument of tool()
ToolNames == {None, Some("get_map")}

\* the keys of the dict, in order
Keys(d) == [i \in 1..Len(d) |-> d[i].name]
HasKey(d, key) == \E i \in 1..Len(d) : d[i].name = key

\* d[key] = func: a key the dict has keeps its place, a new key goes last
Put(d, key, func) ==
    IF HasKey(d, key)
    THEN [i \in 1..Len(d) |-> IF d[i].name = key THEN [name |-> key, func |-> func]
                              ELSE d[i]]
    ELSE Append(d, [name |-> key, func |-> func])

\* mcp.tool(name)(func), lines 16-22; main.py decorates its functions when
\* it is imported, before run() starts the loop
tool ==
    \E name \in ToolNames, func \in Funcs :
        LET tool_name == IF name # None THEN name[1] ELSE func.__name__
        IN  /\ \A t \in Callers : pc[t] = "idle"
            /\ tools' = Put(tools, tool_name, func)
            /\ registered' = registered \cup {tool_name}
            /\ UNCHANGED <<stdio_vars, main_vars, now, nreq, client_vars, pc, frame,
                           result, hist>>

\* the lines _run_server reads from stdin: text that is not JSON, a JSON
\* value that is not an object, and request objects with or without method,
\* id and params
ParamsAbsent == [given |-> FALSE, isdict |-> TRUE, name |-> None]
ParamsNotDict == [given |-> TRUE, isdict |-> FALSE, name |-> None]
ParamsCall(name) == [given |-> TRUE, isdict |-> TRUE, name |-> name]

RequestParams ==
    {ParamsAbsent, ParamsNotDict}
    \cup {ParamsCall(name) : name \in {None, Some("get_map"), Some("get_capabilities"),
                                       Some("nope")}}

Requests ==
    [isdict : {TRUE}, id : {None, Some(1)},
     method : {None, Some("tools/list"), Some("tools/call"), Some("initialize")},
     params : RequestParams]

NotAnObject == [isdict |-> FALSE, id |-> None, method |-> None, params |-> ParamsAbsent]

Lines ==
    {[valid |-> FALSE, value |-> NotAnObject], [valid |-> TRUE, value |-> NotAnObject]}
    \cup {[valid |-> TRUE, value |-> request] : request \in Requests}

\* what awaiting a tool can do: return a str, return a value json.dumps
\* serialises, return a value json.dumps rejects, or raise
ToolOutcomes ==
    { [kind |-> "str", text |-> "https://example.org/wms?service=WMS"],
      [kind |-> "json", text |-> "{}"],
      [kind |-> "unserializable", text |-> "Object of type set is not JSON serializable"],
      [kind |-> "raise", text |-> "HTTP Error 503"] }

\* the dicts handle_request returns
ErrorResponse(message) == [error |-> [code |-> -1, message |-> message]]
ContentResponse(text) == [content |-> << [type |-> "text", text |-> text] >>]

\* func.__doc__ or f"Tool: {name}"
Description(item) ==
    IF item.func.__doc__ # None THEN item.func.__doc__[1] ELSE "Tool: " \o item.name

\* mutant: a tool is listed under its function's name
ToolsResponse_FuncNames(d) ==
    [tools |-> [i \in 1..Len(d) |->
        [name |-> d[i].func.__name__, description |-> Description(d[i]),
         inputSchema |-> [type |-> "object", properties |-> <<>>]]]]

\* lines 31-43
ToolsResponse(d) ==
    [tools |-> [i \in 1..Len(d) |->
        [name |-> d[i].name, description |-> Description(d[i]),
         inputSchema |-> [type |-> "object", properties |-> <<>>]]]]

\* str of a value that is None or a str, inside an f-string
StrOf(v) == IF v = None THEN "None" ELSE v[1]

\* what an iteration of the loop printed, or what it raised
LoopResult(status, exc, printed) == [status |-> status, exc |-> exc, printed |-> printed]

\* the loop of _run_server has been left by an exception
Crashed(t) ==
    pc[t] = "done" /\ frame[t].op = "_run_server" /\ result[t].status = "raised"

\* at most MaxLines lines are read from stdin
MaxLines == 3

\* the frame of an iteration of the loop that read line
Iteration(line) ==
    [op |-> "_run_server", self |-> SharedClient, line |-> line,
     tool_name |-> None, outcome |-> "none", response |-> None]

\* line 103: line = sys.stdin.readline() returns the next line of stdin
readline(t) ==
    /\ ~Crashed(t)
    /\ ~InFlight(t)
    /\ nread < MaxLines
    /\ \E line \in Lines : frame' = [frame EXCEPT ![t] = Iteration(line)]
    /\ pc' = [pc EXCEPT ![t] = "R107"]
    /\ result' = [result EXCEPT ![t] = NoResult]
    /\ hist' = [hist EXCEPT ![t] = NoHist]
    /\ nread' = nread + 1
    /\ UNCHANGED <<registry_vars, stdout, main_vars, now, nreq, client_vars>>

\* lines 103-105: at end of input readline() returns '' and break leaves
\* the loop; _run_server returns
R104(t) ==
    /\ ~Crashed(t)
    /\ ~InFlight(t)
    /\ pc' = [pc EXCEPT ![t] = "stopped"]
    /\ UNCHANGED <<server_vars, now, nreq, client_vars, frame, result, hist>>

\* line 107: request = json.loads(line.strip()); lines 120-129 answer text
\* that is not JSON with a parse error
R107(t) ==
    /\ pc[t] = "R107"
    /\ IF frame[t].line.valid
       THEN /\ pc' = [pc EXCEPT ![t] = "H27"]
            /\ result' = result
            /\ stdout' = stdout
       ELSE /\ pc' = [pc EXCEPT ![t] = "done"]
            /\ result' = [result EXCEPT ![t] =
                    LoopResult("returned", "",
                        Some([jsonrpc |-> "2.0", id |-> None,
                              error |-> [code |-> -32700, message |-> "Parse error"]]))]
            /\ stdout' = Append(stdout, nread)
    /\ UNCHANGED <<registry_vars, nread, main_vars, now, nreq, client_vars, frame, hist>>

\* the message of the AttributeError of .get on a value that is no dict
NoGet == "'list' object has no attribute 'get'"

\* handle_request, lines 26-48 and 66-86: the dispatch on method, up to the
\* call of a tool
H27(t) ==
    /\ pc[t] = "H27"
    /\ LET request == frame[t].line.value
           method == request.method
           params == request.params
           tool_name == params.name
           respond(response) ==
                /\ frame' = [frame EXCEPT ![t].response = Some(response)]
                /\ pc' = [pc EXCEPT ![t] = "R111"]
       IN  IF ~request.isdict THEN respond(ErrorResponse(NoGet))
           ELSE IF method = Some("tools/list") THEN respond(ToolsResponse(tools))
           ELSE IF method = Some("tools/call")
           THEN IF ~params.isdict THEN respond(ErrorResponse(NoGet))
                ELSE IF tool_name # None /\ HasKey(tools, tool_name[1])
                THEN /\ frame' = [frame EXCEPT ![t].tool_name = tool_name]
                     /\ pc' = [pc EXCEPT ![t] = "H50"]
                ELSE respond(ErrorResponse("Tool '" \o StrOf(tool_name) \o "' not found"))
           ELSE respond(ErrorResponse("Unknown method: " \o StrOf(method)))
    /\ UNCHANGED <<server_vars, now, nreq, client_vars, result, hist>>

\* mutant: what the tool raises is not caught
H50_Propagates(t) ==
    /\ pc[t] = "H50"
    /\ \E outcome \in ToolOutcomes :
          IF outcome.kind \in {"str", "json"}
          THEN /\ frame' = [frame EXCEPT ![t].outcome = outcome.kind,
                                         ![t].response = Some(ContentResponse(outcome.text))]
               /\ pc' = [pc EXCEPT ![t] = "R111"]
               /\ result' = result
          ELSE /\ frame' = [frame EXCEPT ![t].outcome = outcome.kind]
               /\ pc' = [pc EXCEPT ![t] = "done"]
               /\ result' = [result EXCEPT ![t] = LoopResult("raised", "Exception", None)]
    /\ UNCHANGED <<server_vars, now, nreq, client_vars, hist>>

\* handle_request, lines 49-65: await the tool and wrap what it returned, or
\* what it or json.dumps raised
H50(t) ==
    /\ pc[t] = "H50"
    /\ \E outcome \in ToolOutcomes :
          /\ frame' = [frame EXCEPT
                ![t].outcome = outcome.kind,
                ![t].response = Some(IF outcome.kind \in {"str", "json"}
                                     THEN ContentResponse(outcome.text)
                                     ELSE ErrorResponse(outcome.text))]
          /\ pc' = [pc EXCEPT ![t] = "R111"]
    /\ UNCHANGED <<server_vars, now, nreq, client_vars, result, hist>>

\* lines 111-118: the JSON-RPC envelope is printed. request.get("id") raises
\* AttributeError when the request is no dict, line 133 of the handler
\* evaluates it again, and the exception leaves the loop
R111(t) ==
    /\ pc[t] = "R111"
    /\ LET request == frame[t].line.value
       IN  result' = [result EXCEPT ![t] =
             IF request.isdict
             THEN LoopResult("returned", "",
                      Some([jsonrpc |-> "2.0", id |-> request.id,
                            result |-> frame[t].response[1]]))
             ELSE LoopResult("raised", "AttributeError", None)]
    /\ stdout' = IF frame[t].line.value.isdict THEN Append(stdout, nread) ELSE stdout
    /\ pc' = [pc EXCEPT ![t] = "done"]
    /\ UNCHANGED <<registry_vars, nread, main_vars, now, nreq, client_vars, frame, hist>>

\* the server: the tools are registered, then the loop serves line by line
NextMcp ==
    \/ tool
    \/ readline(LoopCaller)
    \/ R104(LoopCaller)
    \/ R107(LoopCaller)
    \/ H27(LoopCaller)
    \/ H50(LoopCaller)
    \/ R111(LoopCaller)

SpecMcp == Init /\ [][NextMcp]_vars

\* ------------------------------------------------- the parser on its own
\* an element of the document below Capability: whether it is a Layer
\* element of the WMS namespace, what find and findall yield on it, and the
\* elements nested in it
Node(wms, elem, children) == [wms |-> wms, elem |-> elem, children |-> children]

\* line 102: root.findall('.//wms:Layer', namespaces) yields the Layer
\* elements of the WMS namespace at every depth, in document order
RECURSIVE FindAllLayers(_)
FindAllLayers(nodes) ==
    IF nodes = <<>> THEN <<>>
    ELSE (IF Head(nodes).wms THEN <<Head(nodes).elem>> ELSE <<>>)
         \o FindAllLayers(Head(nodes).children)
         \o FindAllLayers(Tail(nodes))

\* at most MaxSiblings elements directly below Capability
MaxSiblings == 2

\* Layer elements: named with a title, named with an empty Title element,
\* named with no Title element, a group with a Title and no Name, and a
\* layer whose Name element is empty
NamedTitled == LayerElem(Elem(Text(Soil)), Elem(Text(SoilDepth)), Absent, <<>>, "1")
NamedEmptyTitle == LayerElem(Elem(Text(Geo)), Elem(NoText), Absent, <<>>, "0")
NamedUntitled == LayerElem(Elem(Text(Ukso)), Absent, Absent, <<>>, "0")
Group == LayerElem(Absent, Elem(Text(Ukso)), Absent, <<>>, "0")
EmptyName == LayerElem(Elem(NoText), Elem(Text(Geo)), Absent, <<>>, "0")

\* the elements without children: the Layer elements above, and a Layer
\* element outside the WMS namespace
Leaves ==
    {Node(TRUE, elem, <<>>) :
        elem \in {NamedTitled, NamedEmptyTitle, NamedUntitled, Group, EmptyName}}
    \cup {Node(FALSE, NamedTitled, <<>>)}

\* the elements below Capability: a leaf, an element holding one leaf, and
\* two chains three elements deep
Subtrees ==
    Leaves
    \cup {Node(parent.wms, parent.elem, <<child>>) :
            parent \in {Node(TRUE, Group, <<>>), Node(TRUE, NamedTitled, <<>>),
                        Node(FALSE, NamedUntitled, <<>>)},
            child \in Leaves}
    \cup {Node(TRUE, Group, <<Node(TRUE, EmptyName, <<Node(TRUE, NamedUntitled, <<>>)>>)>>),
          Node(TRUE, NamedEmptyTitle,
               <<Node(FALSE, Group, <<Node(TRUE, NamedTitled, <<>>)>>)>>)}

\* the documents: up to MaxSiblings subtrees below Capability
TreeDocuments ==
    { [wellformed |-> TRUE, service |-> Absent, map_formats |-> <<>>,
       info_formats |-> <<>>, layer_elems |-> FindAllLayers(nodes),
       capability |-> nodes] :
      nodes \in UNION { [1..n -> Subtrees] : n \in 0..MaxSiblings } }

\* the state of a get_capabilities() call on the new shared client when
\* lines 50-51 have read one of TreeDocuments
InitParse ==
    \E doc \in TreeDocuments :
        /\ now = 0
        /\ nreq = 1
        /\ base_url = [c \in Clients |-> BaseUrlOf(c)]
        /\ _capabilities_cache = [c \in Clients |-> None]
        /\ _cache_timestamp = [c \in Clients |-> None]
        /\ ts_fetch = [c \in Clients |-> 0]
        /\ last_stored = [c \in Clients |-> None]
        /\ last_failed = [c \in Clients |-> FALSE]
        /\ pc = [t \in Callers |-> IF t = LoopCaller THEN "L53" ELSE "idle"]
        /\ frame = [t \in Callers |->
                IF t = LoopCaller
                THEN [NoFrame EXCEPT !.op = "get_capabilities", !.self = SharedClient,
                                     !.content = Some(doc), !.request_no = 1]
                ELSE NoFrame]
        /\ result = [t \in Callers |-> NoResult]
        /\ hist = [t \in Callers |->
                IF t = LoopCaller
                THEN [NoHist EXCEPT !.issued = 1, !.path = "absent",
                                    !.response = "document"]
                ELSE NoHist]
        /\ tools = <<>>
        /\ registered = {}
        /\ nread = 0
        /\ stdout = <<>>
        /\ wms_client = None
        /\ created = 0

\* lines 53-56: the document is parsed, cached and returned
NextParse ==
    \/ L53(LoopCaller)
    \/ L54(LoopCaller)
    \/ L55(LoopCaller)
    \/ L56(LoopCaller)

SpecParse == InitParse /\ [][NextParse]_vars

\* ------------------------------------ the operations that fetch, together
\* the arguments the lookups are given
CallNames == {Soil}
CallQueries == {Geo}

\* the event loop calls the fetching operations of the shared client one at
\* a time
NextFetch ==
    \/ get_capabilities(LoopCaller, SharedClient, {DefaultVersion})
    \/ get_layer_by_name(LoopCaller, SharedClient, CallNames)
    \/ search_layers(LoopCaller, SharedClient, CallQueries)
    \/ get_feature_info(LoopCaller, SharedClient)
    \/ Statement(LoopCaller)
    \/ F207(LoopCaller)
    \/ F238(LoopCaller)

SpecFetch == Init /\ [][NextFetch]_vars

\* ------------------------------------------------- the tools of main.py
\* the WMSClient instances, in the order in which main.py creates them
Instances == <<"c1", "c2">>

\* the frame of a tool between its two awaits, holding the client
ToolFrame(client) == [NoFrame EXCEPT !.op = "tool", !.self = client]

\* mutant: get_wms_client awaits between the test of line 99 and the
\* assignment of line 100, so another task may run in between
get_wms_client_Suspends(t) ==
    /\ \/ /\ ~InFlight(t)
          /\ wms_client = None
          /\ pc' = [pc EXCEPT ![t] = "G100"]
          /\ frame' = [frame EXCEPT ![t] = NoFrame]
          /\ UNCHANGED <<wms_client, created>>
       \/ /\ ~InFlight(t)
          /\ wms_client # None
          /\ pc' = [pc EXCEPT ![t] = "T109"]
          /\ frame' = [frame EXCEPT ![t] = ToolFrame(wms_client[1])]
          /\ UNCHANGED <<wms_client, created>>
       \/ /\ pc[t] = "G100"
          /\ created < Len(Instances)
          /\ wms_client' = Some(Instances[created + 1])
          /\ created' = created + 1
          /\ pc' = [pc EXCEPT ![t] = "T109"]
          /\ frame' = [frame EXCEPT ![t] = ToolFrame(Instances[created + 1])]
    /\ result' = [result EXCEPT ![t] = NoResult]
    /\ hist' = [hist EXCEPT ![t] = NoHist]
    /\ UNCHANGED <<registry_vars, stdio_vars, now, nreq, client_vars>>

\* line 107 of the get_capabilities tool: client = await get_wms_client().
\* Lines 98-101 test the global and create the WMSClient with no await in
\* between, so the event loop runs them as one step
get_wms_client(t) ==
    /\ ~InFlight(t)
    /\ IF wms_client = None
       THEN /\ created < Len(Instances)
            /\ wms_client' = Some(Instances[created + 1])
            /\ created' = created + 1
       ELSE UNCHANGED <<wms_client, created>>
    /\ pc' = [pc EXCEPT ![t] = "T109"]
    /\ frame' = [frame EXCEPT ![t] = ToolFrame(wms_client'[1])]
    /\ result' = [result EXCEPT ![t] = NoResult]
    /\ hist' = [hist EXCEPT ![t] = NoHist]
    /\ UNCHANGED <<registry_vars, stdio_vars, now, nreq, client_vars>>

\* line 109: await client.get_capabilities(version=version,
\* force_refresh=force_refresh) on the client line 107 obtained; what it
\* returns or raises is what the tool returns or raises (lines 110-113)
T109(t) ==
    /\ pc[t] = "T109"
    /\ \E force_refresh \in BOOLEAN :
          LET c == frame[t].self
          IN  /\ frame' = [frame EXCEPT ![t] =
                      [NoFrame EXCEPT !.op = "get_capabilities", !.self = c,
                                      !.force_refresh = force_refresh]]
              /\ hist' = [hist EXCEPT ![t] =
                      [NoHist EXCEPT !.called_at = now,
                                     !.pre_cache = _capabilities_cache[c],
                                     !.pre_ts = _cache_timestamp[c],
                                     !.after_failure = last_failed[c]]]
    /\ pc' = [pc EXCEPT ![t] = "L35"]
    /\ UNCHANGED <<server_vars, now, nreq, client_vars, result>>

\* a task is inside statements that contain no await and no request
Running(u) == pc[u] \in {"L35", "L37", "L38", "L39", "L53", "L54", "L55", "L56"}

\* concurrent tool calls are tasks of one event loop: a task runs until it
\* awaits or waits for the endpoint, and only then may another task run
NextTools ==
    \E t \in Callers :
        /\ \A u \in Callers \ {t} : ~Running(u)
        /\ \/ get_wms_client(t)
           \/ T109(t)
           \/ Statement(t)

SpecTools == Init /\ [][NextTools]_vars

\* ------------------------------------------ lookups and get_capabilities
\* the caller of the second task of the event loop
SecondCaller == "t2"

\* two tasks of the event loop: one makes lookups, the other calls
\* get_capabilities for either version; get_capabilities never awaits, so a
\* call runs to its end before the other task's next call starts
NextTasks ==
    \/ /\ \A u \in Callers : ~InFlight(u)
       /\ \/ get_layer_by_name(LoopCaller, SharedClient, LayerNames)
          \/ search_layers(LoopCaller, SharedClient, Queries)
          \/ get_capabilities(SecondCaller, SharedClient, Versions)
    \/ \E t \in Callers : Statement(t)
    \/ Tick(LongSteps)

SpecTasks == Init /\ [][NextTasks]_vars

\* ----------------------------------------- the clock at the cache duration
\* the clock advances to one minute short of the cache duration, or by the
\* cache duration
BoundarySteps == {CacheDuration - 1, CacheDuration}

\* the event loop calls get_capabilities() on the shared client
NextBoundary ==
    \/ get_capabilities(LoopCaller, SharedClient, {DefaultVersion})
    \/ Statement(LoopCaller)
    \/ Tick(BoundarySteps)

SpecBoundary == Init /\ [][NextBoundary]_vars

\* ------------------------- the URL operations on a client with a catalog
\* the event loop calls get_capabilities and the operations that build
\* URLs, one at a time, on the shared client
NextCached ==
    \/ get_capabilities(LoopCaller, SharedClient, {DefaultVersion})
    \/ get_map(LoopCaller, SharedClient)
    \/ get_feature_info(LoopCaller, SharedClient)
    \/ convert_coordinates(LoopCaller, SharedClient)
    \/ Statement(LoopCaller)
    \/ M165(LoopCaller)
    \/ F207(LoopCaller)
    \/ F238(LoopCaller)
    \/ V254(LoopCaller)

SpecCached == Init /\ [][NextCached]_vars

\* ------------------------------------------------------------ properties
Done(t) == pc[t] = "done"

\* the client of t's call, and what the call was given and found
Self(t) == frame[t].self
Forced(t) == frame[t].force_refresh
PreCache(t) == hist[t].pre_cache
PreTs(t) == hist[t].pre_ts

\* the client held a catalog when t called
WasPopulated(t) == PreCache(t) # None /\ PreTs(t) # None

\* C1: a call without force_refresh on a populated client, with less than
\* the cache duration elapsed since the cache timestamp when the call ends
\* (so also when line 38 compared them), issues no HTTP request, returns the
\* very object the cache held and leaves the cache and its timestamp alone.
C1_FreshCallServedFromCache ==
    \A t \in Callers :
        (Done(t) /\ ~Forced(t) /\ WasPopulated(t)
            /\ now - PreTs(t)[1] < CacheDuration)
        => /\ hist[t].issued = 0
           /\ result[t].caps = PreCache(t)
           /\ (frame[t].op = "get_capabilities" => result[t].status = "returned")
           /\ _capabilities_cache[Self(t)] = PreCache(t)
           /\ _cache_timestamp[Self(t)] = PreTs(t)

\* a get_capabilities() call thirty minutes after the fetch returned the
\* cached object
C1_Witness ==
    \E t \in Callers :
        /\ Done(t) /\ frame[t].op = "get_capabilities" /\ ~Forced(t)
        /\ WasPopulated(t) /\ now - PreTs(t)[1] = 30
        /\ hist[t].issued = 0 /\ result[t].caps = PreCache(t)

\* C2: a call without force_refresh made when the cache duration or more has
\* elapsed since the cache timestamp issues one HTTP request and, when the
\* fetch succeeds, the cache holds the new object and a timestamp taken by
\* this call.
C2_ExpiredCallRefetches ==
    \A t \in Callers :
        (Done(t) /\ ~Forced(t) /\ WasPopulated(t)
            /\ hist[t].called_at - PreTs(t)[1] >= CacheDuration)
        => /\ hist[t].issued = 1
           /\ result[t].caps # None =>
                /\ result[t].caps # PreCache(t)
                /\ _capabilities_cache[Self(t)] = result[t].caps
                /\ _cache_timestamp[Self(t)] # None
                /\ _cache_timestamp[Self(t)][1] >= hist[t].called_at
                /\ ts_fetch[Self(t)] = result[t].caps[1].id

\* a get_capabilities() call 61 minutes after the fetch replaced the cache
C2_Witness ==
    \E t \in Callers :
        /\ Done(t) /\ frame[t].op = "get_capabilities" /\ ~Forced(t)
        /\ WasPopulated(t) /\ hist[t].called_at - PreTs(t)[1] = 61
        /\ hist[t].issued = 1 /\ result[t].caps # None
        /\ _capabilities_cache[Self(t)] = result[t].caps
        /\ result[t].caps # PreCache(t)

\* C3: a call with force_refresh=true issues one HTTP request whatever the
\* cache held, and never returns the object that was cached.
C3_ForceRefreshFetches ==
    \A t \in Callers :
        (Done(t) /\ Forced(t))
        => /\ hist[t].issued = 1
           /\ hist[t].response # "none"
           /\ result[t].caps # None => result[t].caps # PreCache(t)

\* a forced call on a fresh cache fetched
C3_Witness ==
    \E t \in Callers :
        /\ Done(t) /\ Forced(t) /\ WasPopulated(t)
        /\ now - PreTs(t)[1] < CacheDuration
        /\ hist[t].issued = 1 /\ result[t].caps # None

\* C4: a call whose fetch failed, at the transport or in the parser, raises,
\* returns nothing, and leaves the cached value and the cache timestamp as
\* they were when it was made.
C4_FailureLeavesCache ==
    \A t \in Callers :
        (Done(t) /\ hist[t].response \in {"transport failure", "malformed"})
        => /\ result[t].status = "raised"
           /\ result[t].exc = (IF hist[t].response = "malformed"
                               THEN "ParseError" ELSE "URLError")
           /\ result[t].caps = None
           /\ result[t].layer = None
           /\ result[t].layers = <<>>
           /\ _capabilities_cache[Self(t)] = PreCache(t)
           /\ _cache_timestamp[Self(t)] = PreTs(t)

\* a parse failure on a populated client
C4_Witness ==
    \E t \in Callers :
        /\ Done(t) /\ hist[t].response = "malformed" /\ WasPopulated(t)
        /\ result[t].status = "raised"

\* C5 as claimed: after a failed fetch on a client that fetched successfully
\* before, a later call without force_refresh is served the last-known-good
\* catalog from the cache.
C5_AnyLaterCallServed ==
    \A t \in Callers :
        (pc[t] # "idle" /\ hist[t].after_failure /\ ~Forced(t) /\ WasPopulated(t))
        => /\ hist[t].path \in {"none", "hit"}
           /\ Done(t) => result[t].caps = PreCache(t)

\* C5, amended: after a failed fetch on a client that fetched successfully
\* before, the cache still holds the last catalog stored, with a timestamp;
\* and a later call without force_refresh, made while less than the cache
\* duration has elapsed since that timestamp, is served that catalog and
\* issues no request.
C5_FreshLaterCallServed ==
    /\ \A c \in Clients :
          (last_failed[c] /\ last_stored[c] # None)
          => _capabilities_cache[c] = last_stored[c] /\ _cache_timestamp[c] # None
    /\ \A t \in Callers :
          (Done(t) /\ hist[t].after_failure /\ ~Forced(t) /\ WasPopulated(t)
              /\ now - PreTs(t)[1] < CacheDuration)
          => /\ hist[t].issued = 0
             /\ result[t].caps = last_stored[Self(t)]

\* a call after a failed forced refresh was served the catalog from the cache
C5_Witness ==
    \E t \in Callers :
        /\ Done(t) /\ hist[t].after_failure /\ ~Forced(t) /\ WasPopulated(t)
        /\ hist[t].issued = 0
        /\ result[t].caps = last_stored[Self(t)]
        /\ result[t].caps # None

\* C6: a get_capabilities call without force_refresh on a fresh cache whose
\* version differs from the version asked for returns the cached object,
\* still stamped with the other version, and issues no request.
C6_VersionAgnostic ==
    \A t \in Callers :
        (Done(t) /\ frame[t].op = "get_capabilities" /\ ~Forced(t) /\ WasPopulated(t)
            /\ now - PreTs(t)[1] < CacheDuration
            /\ PreCache(t)[1].version # frame[t].version)
        => /\ result[t].status = "returned"
           /\ result[t].caps = PreCache(t)
           /\ result[t].caps[1].version # frame[t].version
           /\ hist[t].issued = 0

\* version "1.1.1" was asked of a cache stamped "1.3.0"
C6_Witness ==
    \E t \in Callers :
        /\ Done(t) /\ frame[t].op = "get_capabilities" /\ ~Forced(t)
        /\ WasPopulated(t)
        /\ PreCache(t)[1].version = "1.3.0" /\ frame[t].version = "1.1.1"
        /\ result[t].caps = PreCache(t) /\ hist[t].issued = 0

AfterUrlopen == {"L53", "L54", "L55", "L56"}

\* the cache test of t's call found nothing to serve
ObservedMiss(t) == hist[t].path \in {"absent", "expired"}

\* C8: every call whose cache test found the cache absent or stale issues an
\* HTTP request of its own, also while another such call is in progress on
\* the client, and the cache holds what the latest execution of line 54
\* stored.
C8_NoDeduplication ==
    /\ \A t \in Callers :
          (ObservedMiss(t) /\ pc[t] \in AfterUrlopen \cup {"done"})
          => hist[t].issued = 1
    /\ \A t, u \in Callers :
          (t # u /\ pc[t] \in AfterUrlopen /\ pc[u] \in AfterUrlopen)
          => frame[t].request_no # frame[u].request_no
    /\ \A c \in Clients : _capabilities_cache[c] = last_stored[c]

\* two calls found the cache absent, both fetched, and the one that was
\* answered first stored last: the cache holds its result
C8_Witness ==
    \E t, u \in Callers :
        /\ t # u /\ Done(t) /\ Done(u)
        /\ hist[t].path = "absent" /\ hist[u].path = "absent"
        /\ hist[t].issued = 1 /\ hist[u].issued = 1
        /\ result[t].caps # None /\ result[u].caps # None
        /\ result[t].caps[1].id < result[u].caps[1].id
        /\ _capabilities_cache[SharedClient] = result[t].caps

\* C9: a step changes the cached value, the cache timestamp or the base URL
\* of a client only when it is line 54 or line 55 of a call on that client.
C9_Isolation ==
    [][\A c \in Clients :
          \/ /\ _capabilities_cache'[c] = _capabilities_cache[c]
             /\ _cache_timestamp'[c] = _cache_timestamp[c]
             /\ base_url'[c] = base_url[c]
          \/ /\ base_url'[c] = base_url[c]
             /\ \E t \in Callers :
                   /\ frame[t].self = c
                   /\ pc[t] \in {"L54", "L55"}
                   /\ pc'[t] # pc[t]]_vars

\* a call stored a catalog in one client while the other, populated earlier,
\* kept its own
C9_Witness ==
    \E t \in Callers : \E c \in Clients :
        /\ Done(t) /\ c # Self(t) /\ hist[t].issued = 1
        /\ result[t].caps # None
        /\ _capabilities_cache[Self(t)] = result[t].caps
        /\ _capabilities_cache[c] # None
        /\ _capabilities_cache[c] # _capabilities_cache[Self(t)]
        /\ _cache_timestamp[c] # _cache_timestamp[Self(t)]

IsLookup(t) == frame[t].op \in {"get_layer_by_name", "search_layers"}

\* the layers of a catalog, as a set
LayerSet(caps) == {caps[1].layers[i] : i \in 1..Len(caps[1].layers)}

\* C10: a lookup on a fresh cache issues no request and answers from the
\* cached object; a lookup on an absent or expired cache issues one request,
\* for version "1.3.0", and when that fetch succeeds the cache holds its
\* result, which is what the lookup answers from.
C10_LookupsUseCache ==
    \A t \in Callers :
        (Done(t) /\ IsLookup(t))
        => /\ (WasPopulated(t) /\ now - PreTs(t)[1] < CacheDuration)
              => /\ hist[t].issued = 0
                 /\ result[t].caps = PreCache(t)
                 /\ _capabilities_cache[Self(t)] = PreCache(t)
           /\ (~WasPopulated(t) \/ hist[t].called_at - PreTs(t)[1] >= CacheDuration)
              => /\ hist[t].issued = 1
                 /\ hist[t].response = "document"
                    => /\ result[t].caps # None
                       /\ result[t].caps # PreCache(t)
                       /\ result[t].caps[1].version = DefaultVersion
                       /\ _capabilities_cache[Self(t)] = result[t].caps
                       /\ ts_fetch[Self(t)] = result[t].caps[1].id
           /\ result[t].layer # None => result[t].layer[1] \in LayerSet(result[t].caps)
           /\ \A i \in 1..Len(result[t].layers) :
                 result[t].layers[i] \in LayerSet(result[t].caps)

\* get_layer_by_name found its layer in the cached catalog without a request
C10_Witness ==
    \E t \in Callers :
        /\ Done(t) /\ frame[t].op = "get_layer_by_name"
        /\ WasPopulated(t) /\ hist[t].issued = 0
        /\ result[t].caps = PreCache(t)
        /\ result[t].layer # None

\* search_layers on an empty cache fetched the catalog and left it cached
C10_WitnessMiss ==
    \E t \in Callers :
        /\ Done(t) /\ frame[t].op = "search_layers"
        /\ ~WasPopulated(t) /\ hist[t].issued = 1
        /\ _capabilities_cache[Self(t)] = result[t].caps
        /\ Len(result[t].layers) > 0

\* the catalog t's call worked on
Catalog(t) == result[t].caps[1].layers

\* C11: get_layer_by_name(name) returns, never raises; it returns None exactly
\* when no layer of the catalog has that very name, and otherwise the layer
\* at the least position whose name equals the argument character for
\* character.
C11_FirstExactMatch ==
    \A t \in Callers :
        (Done(t) /\ frame[t].op = "get_layer_by_name" /\ result[t].caps # None)
        => /\ result[t].status = "returned"
           /\ result[t].layer = None
              <=> \A i \in 1..Len(Catalog(t)) : Catalog(t)[i].name # Some(frame[t].arg)
           /\ result[t].layer # None
              => \E i \in 1..Len(Catalog(t)) :
                    /\ result[t].layer = Some(Catalog(t)[i])
                    /\ Catalog(t)[i].name = Some(frame[t].arg)
                    /\ \A j \in 1..(i - 1) : Catalog(t)[j].name # Some(frame[t].arg)

\* two layers are named as the argument and the first one was returned
C11_Witness ==
    \E t \in Callers :
        /\ Done(t) /\ frame[t].op = "get_layer_by_name" /\ result[t].caps # None
        /\ Len(Catalog(t)) = 2
        /\ Catalog(t)[1].name = Some(frame[t].arg)
        /\ Catalog(t)[2].name = Some(frame[t].arg)
        /\ Catalog(t)[1] # Catalog(t)[2]
        /\ result[t].layer = Some(Catalog(t)[1])

\* no layer has the name asked for (one differs from it only in case) and
\* the lookup returned None
C11_WitnessNotFound ==
    \E t \in Callers :
        /\ Done(t) /\ frame[t].op = "get_layer_by_name" /\ result[t].caps # None
        /\ result[t].status = "returned" /\ result[t].layer = None
        /\ \E i \in 1..Len(Catalog(t)) :
              /\ Catalog(t)[i].name # Some(frame[t].arg)
              /\ Lower(Catalog(t)[i].name[1]) = Lower(frame[t].arg)

\* a layer contains the query, case-insensitively, in its name, its title or
\* its abstract (the empty string when there is none)
ContainsQuery(layer, query) ==
    \/ Contains(Lower(query), Lower(layer.name[1]))
    \/ Contains(Lower(query), Lower(layer.title[1]))
    \/ Contains(Lower(query),
                IF layer.abstract = None THEN <<>> ELSE Lower(layer.abstract[1]))

\* C12 as claimed: search_layers(query) on a catalog returns the layers that
\* contain the query, in catalog order; so the empty query returns every
\* layer of the catalog.
C12_SearchReturnsMatches ==
    \A t \in Callers :
        (Done(t) /\ frame[t].op = "search_layers" /\ result[t].caps # None)
        => /\ result[t].status = "returned"
           /\ result[t].layers =
                SelectSeq(Catalog(t), LAMBDA layer : ContainsQuery(layer, frame[t].arg))
           /\ frame[t].arg = <<>> => result[t].layers = Catalog(t)

\* C13 as claimed: a lookup served from a fresh cache returns a result,
\* whatever the query and whatever catalog the parser produced.
C13_FreshLookupsReturn ==
    \A t \in Callers :
        (Done(t) /\ IsLookup(t) /\ hist[t].path = "hit")
        => result[t].status = "returned"

\* t's call built a request URL
Built(t) == frame[t].op \in {"get_map", "get_feature_info"} /\ frame[t].url # None

\* the items of a URL's query string under a key
ItemsOf(url, key) == SelectSeq(url.query, LAMBDA item : item[1] = key)

\* the key the CRS goes under for a version, and the other one
CrsKey(version) == IF version = "1.3.0" THEN "crs" ELSE "srs"
OtherKey(version) == IF version = "1.3.0" THEN "srs" ELSE "crs"

\* C14: the URL built by get_map or get_feature_info has one item under crs
\* and none under srs when version is "1.3.0", one under srs and none under
\* crs for any other version, and in both cases one bbox item whose value is
\* min_x,min_y,max_x,max_y joined by commas (then URL-quoted).
C14_CrsKeyByVersion ==
    \A t \in Callers :
        Built(t)
        => LET url == frame[t].url[1]
               bbox == frame[t].bbox
           IN  /\ Len(ItemsOf(url, CrsKey(frame[t].version))) = 1
               /\ Len(ItemsOf(url, OtherKey(frame[t].version))) = 0
               /\ ItemsOf(url, "bbox") =
                    << <<"bbox", QuotePlus(Join(<<FloatStr(bbox.min_x), FloatStr(bbox.min_y),
                                                  FloatStr(bbox.max_x), FloatStr(bbox.max_y)>>))>> >>

\* get_feature_info built a URL for a version that is neither "1.3.0" nor
\* "1.1.1", with srs
C14_Witness ==
    \E t \in Callers :
        /\ Built(t) /\ frame[t].op = "get_feature_info" /\ frame[t].version = "1.3"
        /\ Len(ItemsOf(frame[t].url[1], "srs")) = 1

\* C15: the value under the CRS key is bbox.crs when the crs argument is None
\* and the crs argument otherwise.
C15_CrsDefaultsToBbox ==
    \A t \in Callers :
        Built(t)
        => \A i \in 1..Len(frame[t].url[1].query) :
              LET item == frame[t].url[1].query[i]
              IN  item[1] \in {"crs", "srs"}
                  => item[2] = QuotePlus(IF frame[t].crs = None THEN frame[t].bbox.crs
                                         ELSE frame[t].crs[1])

\* get_map was given a crs other than the bounding box's, and the URL
\* carries the argument
C15_Witness ==
    \E t \in Callers :
        /\ Built(t) /\ frame[t].op = "get_map"
        /\ frame[t].crs = Some(Crs3857) /\ frame[t].bbox.crs = Crs4326
        /\ ItemsOf(frame[t].url[1], "crs") = << <<"crs", QuotePlus(Crs3857)>> >>

\* C16: the step of get_map that follows the call returns a URL on the
\* client's base URL and leaves the number of HTTP requests as it was.
C16_GetMapNeverFails ==
    [][\A t \in Callers :
          (pc[t] = "M165" /\ pc'[t] # "M165")
          => /\ pc'[t] = "done"
             /\ result'[t].status = "returned"
             /\ result'[t].value # None
             /\ result'[t].value[1].base = base_url[frame[t].self]
             /\ nreq' = nreq
             /\ hist'[t].issued = 0]_vars

\* get_map returned a URL for an empty list of layers and a negative width
C16_Witness ==
    \E t \in Callers :
        /\ Done(t) /\ frame[t].op = "get_map"
        /\ frame[t].width < 0 /\ frame[t].layers.value = <<>>
        /\ result[t].status = "returned" /\ result[t].value = frame[t].url
        /\ nreq = 0

\* C17: convert_coordinates returns, never raises: (x, y) when the two CRS
\* are equal; both coordinates times 111319.9 from EPSG:4326 to EPSG:27700;
\* both divided by it from EPSG:27700 to EPSG:4326; (x, y) for any other
\* pair, and the warning is logged in that last case only.
C17_ConvertDispatch ==
    \A t \in Callers :
        (Done(t) /\ frame[t].op = "convert_coordinates")
        => LET f == frame[t]
               same == f.source_crs = f.target_crs
               to_bng == f.source_crs = Crs4326 /\ f.target_crs = Crs27700
               to_wgs == f.source_crs = Crs27700 /\ f.target_crs = Crs4326
               scaled(x, n, d) == [num |-> x.num * n, den |-> x.den * d]
           IN  /\ result[t].status = "returned"
               /\ same => result[t].value = Some(<<f.x, f.y>>)
               /\ to_bng => result[t].value =
                        Some(<<scaled(f.x, 1113199, 10), scaled(f.y, 1113199, 10)>>)
               /\ to_wgs => result[t].value =
                        Some(<<scaled(f.x, 10, 1113199), scaled(f.y, 10, 1113199)>>)
               /\ (~same /\ ~to_bng /\ ~to_wgs) => result[t].value = Some(<<f.x, f.y>>)
               /\ result[t].warned <=> (~same /\ ~to_bng /\ ~to_wgs)

\* convert(1.0, 2.0, "EPSG:3857", "EPSG:4326") returned (1.0, 2.0) with a
\* warning
C17_Witness ==
    \E t \in Callers :
        /\ Done(t) /\ frame[t].op = "convert_coordinates"
        /\ frame[t].source_crs = Crs3857 /\ frame[t].target_crs = Crs4326
        /\ frame[t].x = Float(1, 1) /\ frame[t].y = Float(2, 1)
        /\ result[t].value = Some(<<Float(1, 1), Float(2, 1)>>)
        /\ result[t].warned

\* t's iteration of the server loop parsed its line as JSON
Serving(t) == frame[t].op = "_run_server" /\ frame[t].line.valid

\* the failures of a request: it is no object, its method is unknown, its
\* params are no object, it names no registered tool, or the tool (or the
\* serialisation of its result) raised
UnknownMethod(request) == request.method \notin {Some("tools/list"), Some("tools/call")}
UnknownTool(request) ==
    /\ request.method = Some("tools/call")
    /\ \/ ~request.params.isdict
       \/ request.params.name = None
       \/ request.params.name[1] \notin registered
ToolFailed(t) == frame[t].outcome \in {"raise", "unserializable"}
Failure(t) ==
    LET request == frame[t].line.value
    IN  ~request.isdict \/ UnknownMethod(request) \/ UnknownTool(request) \/ ToolFailed(t)

\* a dict with the one key error, holding an integer code and a str message
IsStructuredError(response) ==
    /\ DOMAIN response = {"error"}
    /\ DOMAIN response.error = {"code", "message"}
    /\ response.error.code \in Int
    /\ response.error.message \in STRING

\* C18: handle_request always returns: once the dispatch and the tool are
\* through, the loop is at line 111 with a response; the response of a
\* failed request is a structured error and nothing else, the response of
\* any other request carries no error; and what is printed for a request
\* object is that response.
C18_FailuresAreStructuredErrors ==
    \A t \in Callers :
        /\ (Serving(t) /\ pc[t] = "R111")
           => /\ frame[t].response # None
              /\ Failure(t) <=> IsStructuredError(frame[t].response[1])
              /\ ~Failure(t) => DOMAIN frame[t].response[1] \in {{"content"}, {"tools"}}
        /\ (Serving(t) /\ Done(t) /\ frame[t].line.value.isdict)
           => /\ result[t].status = "returned"
              /\ result[t].printed # None
              /\ result[t].printed[1].result = frame[t].response[1]

\* a registered tool raised and the client got the error with its message
C18_Witness ==
    \E t \in Callers :
        /\ Serving(t) /\ Done(t) /\ frame[t].outcome = "raise"
        /\ result[t].status = "returned"
        /\ result[t].printed[1].result = ErrorResponse("HTTP Error 503")

\* C19: a tools/list request is answered with a JSON-RPC response carrying
\* the request's id, whose result.tools has one entry for every name a
\* function was registered under and no other entry, each with that name
\* and the docstring of the function registered under it (or "Tool: <name>"
\* when it has none).
C19_ToolsListed ==
    \A t \in Callers :
        (Serving(t) /\ Done(t) /\ frame[t].line.value.isdict
            /\ frame[t].line.value.method = Some("tools/list"))
        => /\ result[t].status = "returned"
           /\ result[t].printed # None
           /\ result[t].printed[1].jsonrpc = "2.0"
           /\ result[t].printed[1].id = frame[t].line.value.id
           /\ DOMAIN result[t].printed[1].result = {"tools"}
           /\ LET listed == result[t].printed[1].result.tools
              IN  /\ {listed[i].name : i \in 1..Len(listed)} = registered
                  /\ Len(listed) = Cardinality(registered)
                  /\ \A i \in 1..Len(listed) :
                        \E j \in 1..Len(tools) :
                            /\ tools[j].name = listed[i].name
                            /\ listed[i].description =
                                 IF tools[j].func.__doc__ = None
                                 THEN "Tool: " \o listed[i].name
                                 ELSE tools[j].func.__doc__[1]

\* two tools were listed, one of them a function registered under another
\* name than its own
C19_Witness ==
    \E t \in Callers :
        /\ Serving(t) /\ Done(t) /\ frame[t].line.value.isdict
        /\ frame[t].line.value.method = Some("tools/list")
        /\ Len(result[t].printed[1].result.tools) = 2
        /\ \E j \in 1..Len(tools) : tools[j].name # tools[j].func.__name__

\* C20: each client's cache is one slot for the value and one for the
\* timestamp, both empty at construction; a slot goes from empty to
\* populated only in line 54 (the value) or line 55 (the timestamp) of a
\* call on that client whose request was answered with a document that
\* parsed; and a populated slot is never empty again.
C20_CacheLifecycle ==
    /\ \A c \in Clients : _capabilities_cache[c] = None /\ _cache_timestamp[c] = None
    /\ [][\A c \in Clients :
            /\ Len(_capabilities_cache'[c]) <= 1
            /\ Len(_cache_timestamp'[c]) <= 1
            /\ _capabilities_cache[c] # None => _capabilities_cache'[c] # None
            /\ _cache_timestamp[c] # None => _cache_timestamp'[c] # None
            /\ (_capabilities_cache[c] = None /\ _capabilities_cache'[c] # None)
               => \E t \in Callers :
                     /\ pc[t] = "L54" /\ frame[t].self = c
                     /\ hist[t].issued = 1 /\ hist[t].response = "document"
                     /\ _capabilities_cache'[c] = frame[t].capabilities
            /\ (_cache_timestamp[c] = None /\ _cache_timestamp'[c] # None)
               => \E t \in Callers :
                     /\ pc[t] = "L55" /\ frame[t].self = c
                     /\ hist[t].response = "document"]_vars

\* the client was empty, a first fetch populated it and a forced refresh
\* replaced the catalog and the timestamp
C20_Witness ==
    \E t \in Callers :
        /\ Done(t) /\ Forced(t) /\ WasPopulated(t)
        /\ PreCache(t)[1].id = 1 /\ ts_fetch[Self(t)] = 2
        /\ hist[t].issued = 1 /\ result[t].caps # None
        /\ _capabilities_cache[Self(t)] = result[t].caps
        /\ _capabilities_cache[Self(t)] # PreCache(t)

\* the operations that fetch from the endpoint, and the statements that
\* call urlopen
FetchOps == {"get_capabilities", "get_layer_by_name", "search_layers", "get_feature_info"}
AtUrlopen(t) == pc[t] \in {"L47", "F238"}

\* C21: no call of get_capabilities, get_feature_info, get_layer_by_name or
\* search_layers issues more than one HTTP request: a request is issued only
\* by a call in flight that has issued none yet, so a request that failed is
\* not issued again, and nothing issues requests once the calls have ended
C21_AtMostOneRequest ==
    [][/\ \A t \in Callers :
             frame'[t].op \in FetchOps => hist'[t].issued <= 1
       /\ nreq' # nreq =>
             /\ nreq' = nreq + 1
             /\ \E t \in Callers :
                   /\ AtUrlopen(t)
                   /\ frame[t].op \in FetchOps
                   /\ hist[t].issued = 0
                   /\ hist'[t].issued = 1]_vars

\* a get_feature_info call whose only request failed, after an earlier call
\* that fetched the catalog
C21_Witness ==
    \E t \in Callers :
        /\ Done(t)
        /\ frame[t].op = "get_feature_info"
        /\ hist[t].response = "transport failure"
        /\ result[t].status = "raised"
        /\ hist[t].issued = 1
        /\ nreq = 2
        /\ _capabilities_cache[Self(t)] # None

\* the places of the elements below Capability, down to three deep
Paths(nodes) ==
    LET level1 == {<<i>> : i \in 1..Len(nodes)}
        level2 == UNION {{<<i, j>> : j \in 1..Len(nodes[i].children)} :
                            i \in 1..Len(nodes)}
        level3 == UNION {{Append(p, k) :
                            k \in 1..Len(nodes[p[1]].children[p[2]].children)} :
                            p \in level2}
    IN  level1 \cup level2 \cup level3

NodeAt(nodes, p) ==
    IF Len(p) = 1 THEN nodes[p[1]]
    ELSE IF Len(p) = 2 THEN nodes[p[1]].children[p[2]]
    ELSE nodes[p[1]].children[p[2]].children[p[3]]

\* document order: the element at p starts before the element at q
Before(p, q) ==
    \E k \in 1..Len(q) :
        /\ \A m \in 1..(k - 1) : m <= Len(p) /\ p[m] = q[m]
        /\ k > Len(p) \/ p[k] < q[k]

\* the places of the WMS Layer elements that have a Name with text
NamedPlaces(nodes) ==
    {p \in Paths(nodes) :
        /\ NodeAt(nodes, p).wms
        /\ NodeAt(nodes, p).elem.Name # Absent
        /\ NodeAt(nodes, p).elem.Name[1] # None
        /\ NodeAt(nodes, p).elem.Name[1][1] # <<>>}

\* C22: when line 53 parses a document, the layers of the catalog are the
\* Layer elements that have a Name with text, from every depth and in
\* document order: a Layer element with no Name or an empty Name is left
\* out whether or not it has a Title
C22_NamedLayersInOrder ==
    [][\A t \in Callers :
          (pc[t] = "L53" /\ pc'[t] = "L54") =>
             LET nodes == frame[t].content[1].capability
                 layers == frame'[t].capabilities[1].layers
                 kept == NamedPlaces(nodes)
                 rank(p) == 1 + Cardinality({q \in kept : Before(q, p)})
             IN  /\ Len(layers) = Cardinality(kept)
                 /\ \A p \in kept :
                       layers[rank(p)].name = NodeAt(nodes, p).elem.Name[1]]_vars

\* a call returned a catalog of two layers, parsed and cached from a
\* document in which the layer named Ukso comes before the layer named Soil
C22_Witness ==
    \E t \in Callers :
        /\ Done(t)
        /\ result[t].status = "returned"
        /\ result[t].caps # None
        /\ Len(last_stored[Self(t)][1].layers) = 2
        /\ last_stored[Self(t)][1].layers[1].name = Some(Ukso)
        /\ last_stored[Self(t)][1].layers[2].name = Some(Soil)

\* the catalogs the clients hold
Snapshots == {_capabilities_cache[c][1] : c \in {d \in Clients : _capabilities_cache[d] # None}}

\* C23: every layer of a cached catalog has a title that is a string, never
\* None
C23_TitleIsString ==
    \A capabilities \in Snapshots :
        \A i \in 1..Len(capabilities.layers) : capabilities.layers[i].title # None

\* C24: no two layers of a cached catalog have the same name
C24_NamesUnique ==
    \A capabilities \in Snapshots :
        \A i, j \in 1..Len(capabilities.layers) :
            i # j => capabilities.layers[i].name # capabilities.layers[j].name

\* C25: whenever no call is in flight, every client holds either both a
\* cached catalog and a cache timestamp or neither of them
C25_CacheAndTimestampTogether ==
    (\A t \in Callers : ~InFlight(t)) =>
        \A c \in Clients : (_capabilities_cache[c] = None) <=> (_cache_timestamp[c] = None)

\* a fetch on a client with nothing cached failed in the parse, and left
\* both fields absent
C25_Witness ==
    \E t \in Callers :
        /\ Done(t)
        /\ frame[t].op = "get_capabilities"
        /\ PreCache(t) = None
        /\ hist[t].response = "malformed"
        /\ result[t].status = "raised"
        /\ _capabilities_cache[Self(t)] = None
        /\ _cache_timestamp[Self(t)] = None

\* the operations that build URLs or convert coordinates
UrlOps == {"get_map", "get_feature_info", "convert_coordinates"}

\* C26: during and after a call of get_map, get_feature_info or
\* convert_coordinates, whether it returns or raises, the client's cached
\* catalog and cache timestamp are what they were when the call was made,
\* and no step of such a call writes either field of any client
C26_CacheUntouched ==
    /\ \A t \in Callers :
          frame[t].op \in UrlOps =>
             /\ _capabilities_cache[Self(t)] = PreCache(t)
             /\ _cache_timestamp[Self(t)] = PreTs(t)
    /\ [][\A t \in Callers :
             (frame'[t].op \in UrlOps /\ pc'[t] # pc[t]) =>
                UNCHANGED <<_capabilities_cache, _cache_timestamp>>]_vars

\* a get_feature_info call on a client that holds a catalog raised, and the
\* catalog and its timestamp are still there
C26_Witness ==
    \E t \in Callers :
        /\ Done(t)
        /\ frame[t].op = "get_feature_info"
        /\ result[t].status = "raised"
        /\ WasPopulated(t)
        /\ _capabilities_cache[Self(t)] = PreCache(t)
        /\ _cache_timestamp[Self(t)] = PreTs(t)

\* C27: a get_capabilities call without force_refresh made exactly one
\* cache duration after the cache timestamp issues a request, and a call
\* that ends with less than the cache duration elapsed since the timestamp
\* issues none and returns the cached catalog
C27_StrictFreshness ==
    \A t \in Callers :
        (Done(t) /\ frame[t].op = "get_capabilities" /\ ~Forced(t) /\ WasPopulated(t)) =>
            /\ hist[t].called_at - PreTs(t)[1] = CacheDuration =>
                  hist[t].issued = 1 /\ hist[t].path = "expired"
            /\ now - PreTs(t)[1] < CacheDuration =>
                  /\ hist[t].issued = 0
                  /\ hist[t].path = "hit"
                  /\ result[t].caps = PreCache(t)

\* a call made exactly one cache duration after the timestamp fetched anew
C27_Witness ==
    \E t \in Callers :
        /\ Done(t) /\ frame[t].op = "get_capabilities" /\ ~Forced(t)
        /\ WasPopulated(t)
        /\ hist[t].called_at - PreTs(t)[1] = CacheDuration
        /\ hist[t].issued = 1
        /\ result[t].caps # None
        /\ result[t].caps # PreCache(t)

\* a call made one minute sooner was served from the cache
C27_WitnessSooner ==
    \E t \in Callers :
        /\ Done(t) /\ frame[t].op = "get_capabilities" /\ ~Forced(t)
        /\ WasPopulated(t)
        /\ hist[t].called_at - PreTs(t)[1] = CacheDuration - 1
        /\ now = hist[t].called_at
        /\ hist[t].issued = 0
        /\ result[t].caps = PreCache(t)

\* C28: a lookup calls get_capabilities for version "1.3.0" without
\* force_refresh, so the catalog a lookup fetched and cached on a client
\* with nothing cached is stamped "1.3.0"; a later get_capabilities call
\* without force_refresh that finds this catalog cached and fresh returns
\* it, whatever version the call asked for
C28_LookupFetchesDefaultVersion ==
    \A t \in Callers :
        (IsLookup(t) /\ pc[t] # "idle") =>
            /\ frame[t].version = DefaultVersion
            /\ ~Forced(t)
            /\ (Done(t) /\ PreCache(t) = None /\ result[t].caps # None) =>
                  /\ hist[t].issued = 1
                  /\ result[t].caps[1].version = DefaultVersion
                  /\ \A u \in Callers :
                        (/\ Done(u)
                         /\ frame[u].op = "get_capabilities"
                         /\ ~Forced(u)
                         /\ PreCache(u) = result[t].caps
                         /\ PreTs(u) # None
                         /\ now - PreTs(u)[1] < CacheDuration)
                        => /\ hist[u].issued = 0
                           /\ result[u].caps = result[t].caps
                           /\ result[u].caps[1].version = DefaultVersion

\* get_capabilities("1.1.1") returned the catalog stamped "1.3.0" that a
\* search on the empty cache had fetched
C28_Witness ==
    \E t, u \in Callers :
        /\ Done(t) /\ frame[t].op = "search_layers"
        /\ PreCache(t) = None /\ hist[t].issued = 1 /\ result[t].caps # None
        /\ Done(u) /\ frame[u].op = "get_capabilities" /\ ~Forced(u)
        /\ frame[u].version = "1.1.1"
        /\ PreCache(u) = result[t].caps
        /\ result[u].caps = result[t].caps
        /\ result[u].caps[1].version = DefaultVersion
        /\ hist[u].issued = 0

\* the numbers of the lines read so far, in order
Answered(n) == [i \in 1..n |-> i]

\* C29: the loop has printed one response for every line it has read and
\* finished with, in the order of the lines, whatever the line held; no
\* line makes an exception leave the loop, which ends only at end of input
C29_OneResponsePerLine ==
    \A t \in Callers :
        (frame[t].op = "_run_server" \/ pc[t] = "stopped") =>
            /\ ~Crashed(t)
            /\ pc[t] \in {"done", "stopped"} => stdout = Answered(nread)
            /\ pc[t] \in {"R107", "H27", "H50", "R111"} => stdout = Answered(nread - 1)

\* task t holds the client that get_wms_client returned to it
HoldsClient(t) == pc[t] # "idle" /\ frame[t].op \in {"tool", "get_capabilities"}

\* C30: main.py creates at most one WMSClient; every tool call holds the
\* instance the global names, so all calls hold the same one, and no other
\* instance ever caches a catalog
C30_OneClient ==
    /\ created <= 1
    /\ (wms_client = None) <=> (created = 0)
    /\ \A t \in Callers :
          HoldsClient(t) => wms_client # None /\ Self(t) = wms_client[1]
    /\ \A c \in Clients :
          (wms_client = None \/ c # wms_client[1]) =>
             _capabilities_cache[c] = None /\ _cache_timestamp[c] = None

\* two tool calls: one fetched the catalog while the other held the same
\* client, and the other was then served that catalog from the cache
C30_Witness ==
    \E t, u \in Callers :
        /\ t # u
        /\ Done(t) /\ Done(u)
        /\ created = 1
        /\ Self(t) = Self(u)
        /\ hist[t].issued = 1 /\ result[t].caps # None
        /\ hist[u].issued = 0
        /\ hist[u].called_at = hist[t].called_at
        /\ result[u].caps = result[t].caps

====
